---- MODULE Spec2Model ----
(***************************************************************************)
(* A model of the place-matching session of GeoPro:                        *)
(* geopro/functions/osm_fitting.py (OSMMatcher), with the rule engine of   *)
(* geopro/functions/places_feature_matching.py and the constants of        *)
(* geopro/config.py.                                                       *)
(*                                                                         *)
(* Conventions                                                             *)
(*   - a Python value that may be None is a sequence: <<>> is None and     *)
(*     <<v>> is the value v;                                               *)
(*   - a string that the code tokenises is a sequence of one-character     *)
(*     strings; other strings (tag keys and values, commands) are strings; *)
(*   - scores are integers in thousandths (round(x, 3) * 1000);            *)
(*   - points lie on one meridian: a latitude is a whole number of metres  *)
(*     along it, so the great-circle distance of two points is the         *)
(*     absolute difference of their latitudes.                             *)
(***************************************************************************)
EXTENDS Integers, Sequences, FiniteSets, TLC

None == <<>>
Some(v) == <<v>>
IsNone(o) == o = <<>>
Val(o) == o[1]

\* ------------------------------------------------------------------------
\* Bounds of the model
\* ------------------------------------------------------------------------
MaxFeatures == 2
MaxElements == 2
\* The longest list of matched types, and of places handed to the ranking
MaxTypes == 3
MaxPlaces == 3
\* The largest number of rows of a ruleset file
MaxRows == 3

\* ------------------------------------------------------------------------
\* geopro/config.py
\* ------------------------------------------------------------------------
RANGES == <<10, 30, 100, 1000, 5000>>
DEFAULT_RANGE == 10

ZOOM_IN == "zoom-in"
ZOOM_OUT == "zoom-out"
EXIT == "exit"

\* MatchingMethods
ALL == "all"
BEST == "best"
THRESHOLD == "threshold"

\* OSMMatcher.__init__ defaults, in thousandths
name_weight == 700
dist_weight == 300

\* ------------------------------------------------------------------------
\* Characters and tokenising
\* ------------------------------------------------------------------------
LowerLetters == {"a", "b", "c", "e", "f", "l", "n", "r", "u"}
UpperLetters == {"B", "C", "L"}
Digits == {"4", "2"}

IsLetter(c) == c \in LowerLetters \cup UpperLetters
\* \w of Python's re: letters, digits and the underscore
IsWordChar(c) == IsLetter(c) \/ c \in Digits \/ c = "_"

lower(c) ==
    CASE c = "B" -> "b"
      [] c = "C" -> "c"
      [] c = "L" -> "l"
      [] OTHER -> c

LowerWord(w) == [i \in 1..Len(w) |-> lower(w[i])]

\* The maximal runs of characters satisfying the class test; cls is
\* "word" (\w) or "letter" ([A-Za-z]).
InClass(cls, c) == IF cls = "word" THEN IsWordChar(c) ELSE IsLetter(c)

RECURSIVE Runs(_, _, _, _)
Runs(cls, s, i, cur) ==
    IF i > Len(s)
    THEN IF cur = <<>> THEN <<>> ELSE <<cur>>
    ELSE IF InClass(cls, s[i])
         THEN Runs(cls, s, i + 1, Append(cur, s[i]))
         ELSE (IF cur = <<>> THEN <<>> ELSE <<cur>>) \o Runs(cls, s, i + 1, <<>>)

\* re.findall(r"[A-Za-z]+(?:'[A-Za-z]+)?", place_name), for names without
\* an apostrophe
extract_words(place_name) == Runs("letter", place_name, 1, <<>>)

\* Mutant of normalize: words of two characters count as tokens
normalize_two_chars(name) ==
    LET ws == Runs("word", name, 1, <<>>)
    IN  { LowerWord(ws[i]) : i \in { j \in 1..Len(ws) : Len(ws[j]) > 1 } }

\* normalize() of name_overlap_score: re.split(r"\W+", name), the pieces
\* longer than 2 characters, lower-cased, as a set
normalize(name) ==
    LET ws == Runs("word", name, 1, <<>>)
    IN  { LowerWord(ws[i]) : i \in { j \in 1..Len(ws) : Len(ws[j]) > 2 } }

\* round(n / d, 0) with ties to the even neighbour, n >= 0, d > 0
RoundDiv(n, d) ==
    LET q == n \div d
        r == n % d
    IN  IF 2 * r < d THEN q
        ELSE IF 2 * r > d THEN q + 1
        ELSE IF q % 2 = 0 THEN q ELSE q + 1

\* name_overlap_score as the fraction <<numerator, denominator>>
name_overlap_score(name_a, name_b) ==
    LET set_a == normalize(name_a)
        set_b == normalize(name_b)
    IN  IF set_a = {} \/ set_b = {}
        THEN <<0, 1>>
        ELSE <<Cardinality(set_a \cap set_b), Cardinality(set_a \cup set_b)>>

haversine_distance(lat1, lat2) == IF lat1 >= lat2 THEN lat1 - lat2 ELSE lat2 - lat1


\* ------------------------------------------------------------------------
\* Rule engine: geopro/functions/places_feature_matching.py
\* ------------------------------------------------------------------------
OsmTag(key, value) == [key |-> key, value |-> value]

\* Mutant of matches: a mandatory key is satisfied by any value
matches_any_value(rule, tags) ==
    /\ \A tag \in rule.m_tags : \E t \in tags : t = tag
    /\ \A key \in rule.m_mandatoryKeys : \E t \in tags : t.key = key
    /\ \A key \in rule.m_forbiddenKeys :
           \A t \in tags : t.key # key \/ t.value = "no"

\* MapcssRule.matches(tags); tags is the set of OsmTag built from a dict
matches(rule, tags) ==
    /\ \A tag \in rule.m_tags : \E t \in tags : t = tag
    /\ \A key \in rule.m_mandatoryKeys :
           \E t \in tags : t.key = key /\ t.value # "no"
    /\ \A key \in rule.m_forbiddenKeys :
           \A t \in tags : t.key # key \/ t.value = "no"

Min(a, b) == IF a <= b THEN a ELSE b

\* Mutant of equal_prefix: only the first token is compared
equal_prefix_first_token(lhs, rhs) ==
    LET prefix_size == Min(Len(lhs), Len(rhs))
        compare_len == Min(1, prefix_size)
    IN  SubSeq(lhs, 1, compare_len) = SubSeq(rhs, 1, compare_len)

equal_prefix(lhs, rhs) ==
    LET prefix_size == Min(Len(lhs), Len(rhs))
        compare_len == Min(2, prefix_size)
    IN  SubSeq(lhs, 1, compare_len) = SubSeq(rhs, 1, compare_len)

\* list.remove(r): drops the first element equal to r
RECURSIVE RemoveFirst(_, _)
RemoveFirst(s, r) ==
    IF s = <<>> THEN <<>>
    ELSE IF Head(s) = r THEN Tail(s)
    ELSE <<Head(s)>> \o RemoveFirst(Tail(s), r)

RECURSIVE RemoveAll(_, _)
RemoveAll(s, rs) ==
    IF rs = <<>> THEN s ELSE RemoveAll(RemoveFirst(s, Head(rs)), Tail(rs))

\* Mutant of ScanExisting: a shorter existing type is not queued for removal
RECURSIVE ScanExisting_keeps_shorter(_, _, _, _)
ScanExisting_keeps_shorter(t, result, j, to_remove) ==
    IF j > Len(result) THEN <<TRUE, to_remove>>
    ELSE IF equal_prefix(t, result[j]) /\ Len(t) < Len(result[j])
         THEN <<FALSE, to_remove>>
         ELSE ScanExisting_keeps_shorter(t, result, j + 1, to_remove)

\* The inner loop of leave_longest_types over result[j..]: the pair
\* <<keep, to_remove>>; the loop breaks at the first longer existing type.
RECURSIVE ScanExisting(_, _, _, _)
ScanExisting(t, result, j, to_remove) ==
    IF j > Len(result) THEN <<TRUE, to_remove>>
    ELSE IF equal_prefix(t, result[j])
         THEN IF Len(t) > Len(result[j])
              THEN ScanExisting(t, result, j + 1, Append(to_remove, result[j]))
              ELSE IF Len(t) < Len(result[j])
                   THEN <<FALSE, to_remove>>
                   ELSE ScanExisting(t, result, j + 1, to_remove)
         ELSE ScanExisting(t, result, j + 1, to_remove)

RECURSIVE LeaveLongestFrom(_, _, _)
LeaveLongestFrom(matched_types, i, result) ==
    IF i > Len(matched_types) THEN result
    ELSE LET t == matched_types[i]
             sc == ScanExisting(t, result, 1, <<>>)
         IN  IF sc[1]
             THEN LeaveLongestFrom(matched_types, i + 1,
                                   Append(RemoveAll(result, sc[2]), t))
             ELSE LeaveLongestFrom(matched_types, i + 1, result)

leave_longest_types(matched_types) == LeaveLongestFrom(matched_types, 1, <<>>)

\* '-'.join(features): the tokens with a "-" between neighbours
RECURSIVE Join(_)
Join(features) ==
    IF Len(features) <= 1 THEN features
    ELSE <<Head(features), "-">> \o Join(Tail(features))

\* list(set(...)): the order of the result is not defined, so it is a set
convert_list_to_feature_types(feature_list) ==
    { Join(feature_list[i]) : i \in 1..Len(feature_list) }

\* ------------------------------------------------------------------------
\* parse_mapcss. A row of the file, as csv.reader gives it: the number of
\* its fields, whether the first field starts with "#", the first field
\* split at "|" (no token: an empty first field), the third field, and
\* the second field split at "," into selectors. A selector is enclosed in
\* brackets or not, and holds the pieces between its brackets, each split
\* at "=" and with a mark for a leading "!".
\* The result is [exc, rules]: the exception raised, or the rules returned.
\* ------------------------------------------------------------------------
Piece(negated, tokens) == [negated |-> negated, tokens |-> tokens]

Selector(bracketed, pieces) == [bracketed |-> bracketed, pieces |-> pieces]

Row(nfields, comment, type_tokens, third, selectors) ==
    [nfields |-> nfields, comment |-> comment, type_tokens |-> type_tokens,
     third |-> third, selectors |-> selectors]

\* process_full, lines 106-125: the pieces of one selector, piece by piece
RECURSIVE RuleOfPieces(_, _, _)
RuleOfPieces(pieces, i, rule) ==
    IF i > Len(pieces) THEN [exc |-> None, rule |-> rule]
    ELSE LET tag_tokens == pieces[i].tokens
         IN  IF Len(tag_tokens) = 1
             THEN IF pieces[i].negated
                  THEN RuleOfPieces(pieces, i + 1,
                         [rule EXCEPT !.m_forbiddenKeys = @ \cup {tag_tokens[1]}])
                  ELSE RuleOfPieces(pieces, i + 1,
                         [rule EXCEPT !.m_mandatoryKeys = @ \cup {tag_tokens[1]}])
             ELSE IF Len(tag_tokens) = 2
             THEN RuleOfPieces(pieces, i + 1,
                    [rule EXCEPT !.m_tags =
                                   @ \cup {OsmTag(tag_tokens[1], tag_tokens[2])}])
             ELSE [exc |-> Some("ValueError"), rule |-> rule]

\* Mutant of enclosed: a selector is accepted as it comes
enclosed_any(selector) == TRUE

\* Line 95: selector.startswith("[") and selector.endswith("]")
enclosed(selector) == selector.bracketed

\* process_full, lines 83-127: the selectors of one row, one rule each
RECURSIVE process_full(_, _, _, _)
process_full(type_tokens, selectors, i, rules) ==
    IF type_tokens = <<>> \/ selectors = <<>>
    THEN [exc |-> Some("ValueError"), rules |-> <<>>]
    ELSE IF i > Len(selectors) THEN [exc |-> None, rules |-> rules]
    ELSE IF selectors[i] = Selector(FALSE, <<>>)
    THEN process_full(type_tokens, selectors, i + 1, rules)
    ELSE IF ~enclosed(selectors[i])
    THEN [exc |-> Some("ValueError"), rules |-> <<>>]
    ELSE LET r == RuleOfPieces(selectors[i].pieces, 1,
                               [m_tags |-> {}, m_mandatoryKeys |-> {},
                                m_forbiddenKeys |-> {}])
         IN  IF ~IsNone(r.exc) THEN [exc |-> r.exc, rules |-> <<>>]
             ELSE process_full(type_tokens, selectors, i + 1,
                               Append(rules, <<type_tokens, r.rule>>))

\* process_short, lines 72-80
process_short(type_tokens, rules) ==
    IF Len(type_tokens) # 2
    THEN [exc |-> Some("ValueError"), rules |-> <<>>]
    ELSE [exc |-> None,
          rules |-> Append(rules,
                           <<type_tokens,
                             [m_tags |-> {OsmTag(type_tokens[1], type_tokens[2])},
                              m_mandatoryKeys |-> {}, m_forbiddenKeys |-> {}]>>)]

\* Lines 132-151: the loop over the rows
RECURSIVE ParseRows(_, _, _)
ParseRows(rows, i, rules) ==
    IF i > Len(rows) THEN [exc |-> None, rules |-> rules]
    ELSE LET fields == rows[i]
         IN  IF fields.nfields = 0 THEN ParseRows(rows, i + 1, rules)
             ELSE IF fields.type_tokens = <<>> \/ fields.comment
             THEN ParseRows(rows, i + 1, rules)
             ELSE IF fields.nfields \notin {3, 7}
             THEN [exc |-> Some("ValueError"), rules |-> <<>>]
             ELSE IF fields.nfields = 3 /\ fields.third = ""
             THEN LET r == process_short(fields.type_tokens, rules)
                  IN  IF ~IsNone(r.exc) THEN r ELSE ParseRows(rows, i + 1, r.rules)
             ELSE IF fields.nfields = 7 /\ fields.third # "x"
             THEN LET r == process_full(fields.type_tokens, fields.selectors, 1, rules)
                  IN  IF ~IsNone(r.exc) THEN r ELSE ParseRows(rows, i + 1, r.rules)
             ELSE ParseRows(rows, i + 1, rules)

parse_mapcss(rows) == ParseRows(rows, 1, <<>>)

\* The ruleset held by the session (place_matching_rules): rows in the
\* form of resources/mapcss-mapping.csv, as parse_mapcss returns them.
Rule(tags, mandatory, forbidden) ==
    [m_tags |-> tags, m_mandatoryKeys |-> mandatory, m_forbiddenKeys |-> forbidden]

place_matching_rules ==
    << <<<<"amenity", "cafe">>, Rule({OsmTag("amenity", "cafe")}, {}, {})>>,
       <<<<"amenity", "parking">>, Rule({OsmTag("amenity", "parking")}, {}, {})>>,
       <<<<"amenity", "parking", "fee">>,
         Rule({OsmTag("amenity", "parking")}, {"fee"}, {})>>,
       <<<<"building">>, Rule({}, {"building"}, {})>>,
       <<<<"amenity", "bar">>, Rule({OsmTag("amenity", "bar")}, {}, {"disused"})>> >>

\* The icon mapping held by the session (data_place_icons), in file order:
\* category, the listed values, and the optional "default" entry.
data_place_icons ==
    << [category |-> "amenity",
        submap |-> {<<"cafe", "Cafe">>, <<"bar", "Bar">>},
        default |-> None],
       [category |-> "building",
        submap |-> {},
        default |-> Some("Building")],
       [category |-> "shop",
        submap |-> {<<"bakery", "Bakery">>},
        default |-> Some("Shop")] >>

\* OSMMatcher.get_place_features
get_place_features(place_data) ==
    LET osm_tags == place_data.original_tags
        idxs == { i \in 1..Len(place_matching_rules) :
                      matches(place_matching_rules[i][2], osm_tags) }
        RECURSIVE Collect(_)
        Collect(i) ==
            IF i > Len(place_matching_rules) THEN <<>>
            ELSE (IF i \in idxs THEN <<place_matching_rules[i][1]>> ELSE <<>>)
                 \o Collect(i + 1)
        matched_types == Collect(1)
    IN  convert_list_to_feature_types(leave_longest_types(matched_types))

\* Mutant of IconFrom: the default entry of a category comes before its
\* listed values
RECURSIVE IconFrom_default_first(_, _)
IconFrom_default_first(tags, i) ==
    IF i > Len(data_place_icons) THEN None
    ELSE LET e == data_place_icons[i]
             here == { t \in tags : t.key = e.category }
         IN  IF here = {} THEN IconFrom_default_first(tags, i + 1)
             ELSE LET value == (CHOOSE t \in here : TRUE).value
                      listed == { p \in e.submap : p[1] = value }
                  IN  IF value = "" THEN IconFrom_default_first(tags, i + 1)
                      ELSE IF ~IsNone(e.default) THEN e.default
                           ELSE IF listed # {}
                                THEN Some((CHOOSE p \in listed : TRUE)[2])
                                ELSE IconFrom_default_first(tags, i + 1)

\* OSMMatcher.get_place_icon: None or the icon name
RECURSIVE IconFrom(_, _)
IconFrom(tags, i) ==
    IF i > Len(data_place_icons) THEN None
    ELSE LET e == data_place_icons[i]
             here == { t \in tags : t.key = e.category }
         IN  IF here = {} THEN IconFrom(tags, i + 1)
             ELSE LET value == (CHOOSE t \in here : TRUE).value
                      listed == { p \in e.submap : p[1] = value }
                  IN  IF value = "" THEN IconFrom(tags, i + 1)
                      ELSE IF listed # {}
                           THEN Some((CHOOSE p \in listed : TRUE)[2])
                           ELSE IF ~IsNone(e.default) THEN e.default
                                ELSE IconFrom(tags, i + 1)

get_place_icon(place_data) == IconFrom(place_data.original_tags, 1)


\* ------------------------------------------------------------------------
\* Inputs: the features of an input file and the elements a candidate
\* query can answer with
\* ------------------------------------------------------------------------
CafeLuna == <<"C", "a", "f", "e", " ", "L", "u", "n", "a">>
LunaCafe == <<"L", "u", "n", "a", " ", "C", "a", "f", "e">>
Luna == <<"L", "u", "n", "a">>
Bar42 == <<"B", "a", "r", " ", "4", "2">>

\* A GeoJSON feature: properties.name, properties.description,
\* geometry.type and geometry.coordinates (<<lon, lat>> for a 2D point)
Feature(name, desc, type, coords) ==
    [name |-> name, description |-> desc, type |-> type, coordinates |-> coords]

FeatureKinds ==
    { Feature(CafeLuna, "d1", "Point", <<0, 0>>),
      Feature(CafeLuna, "d2", "LineString", <<0, 0>>),
      Feature(Bar42, "d3", "Point", <<0, 40, 7>>) }

\* An element of an Overpass response: id, tags.name, lat, lon, center
\* (each may be missing) and the remaining tags
Element(id, name, lat, lon, center, tags) ==
    [id |-> id, name |-> name, lat |-> lat, lon |-> lon, center |-> center,
     tags |-> tags]

Center(lat, lon) == [lat |-> lat, lon |-> lon]

ElementKinds ==
    { Element(1, Some(Luna), Some(5), Some(0), None,
              {OsmTag("amenity", "cafe"), OsmTag("building", "yes")}),
      Element(2, Some(Bar42), Some(50), Some(0), None,
              {OsmTag("amenity", "parking"), OsmTag("fee", "yes")}),
      Element(3, None, Some(3), Some(0), None,
              {OsmTag("building", "yes")}),
      Element(4, Some(LunaCafe), None, None, Some(Center(Some(20), Some(0))),
              {OsmTag("amenity", "bar")}),
      Element(5, Some(CafeLuna), None, None, Some(Center(None, Some(0))),
              {OsmTag("amenity", "cafe")}) }

\* The sequences of at most n members of S
RECURSIVE SeqsUpTo(_, _)
SeqsUpTo(S, n) ==
    IF n = 0 THEN {<<>>}
    ELSE LET shorter == SeqsUpTo(S, n - 1)
         IN  shorter \cup
             { Append(q, x) : q \in { r \in shorter : Len(r) = n - 1 },
                              x \in S }

\* The query ends in "out center;": the elements are printed by ascending id
Ascending(q) == \A i, j \in 1..Len(q) : i < j => q[i].id < q[j].id

\* What overpass_request returns: None (failure) or the parsed response,
\* here its "elements" list
Responses ==
    {None} \cup { Some(q) : q \in { r \in SeqsUpTo(ElementKinds, MaxElements) :
                                        Ascending(r) } }

\* ------------------------------------------------------------------------
\* OSMMatcher.search_places_around, given what overpass_request returns.
\* The result is None or Some(list of places).
\* ------------------------------------------------------------------------
Place(el, lat, lon) ==
    [id |-> el.id, name |-> el.name, lat |-> lat, lon |-> lon,
     original_tags |-> el.tags]

RECURSIVE PlacesOf(_)
PlacesOf(elements) ==
    IF elements = <<>> THEN <<>>
    ELSE LET el == Head(elements)
             rest == PlacesOf(Tail(elements))
         IN  IF IsNone(el.lat) \/ IsNone(el.lon)
             THEN IF IsNone(el.center)
                     \/ (IsNone(Val(el.center).lat) /\ IsNone(Val(el.center).lon))
                  THEN rest
                  ELSE <<Place(el, Val(el.center).lat, Val(el.center).lon)>> \o rest
             ELSE <<Place(el, el.lat, el.lon)>> \o rest

search_places_around(place_name, data) ==
    IF extract_words(place_name) = <<>> THEN Some(<<>>)
    ELSE IF IsNone(data) THEN None
    ELSE Some(PlacesOf(Val(data)))

\* ------------------------------------------------------------------------
\* OSMMatcher.rank_matched_places
\* ------------------------------------------------------------------------
Ranked(place, distance, max_distance, ns) ==
    [id |-> place.id, name |-> place.name, lat |-> place.lat, lon |-> place.lon,
     original_tags |-> place.original_tags,
     distance_m |-> distance,
     distance_score |-> RoundDiv(1000 * (max_distance - distance), max_distance),
     name_score |-> RoundDiv(1000 * ns[1], ns[2]),
     final_score |-> RoundDiv(name_weight * ns[1] * max_distance
                                + dist_weight * (max_distance - distance) * ns[2],
                              ns[2] * max_distance)]

\* Mutant of InsertDesc: an element goes before the elements of equal score
RECURSIVE InsertDesc_before_equals(_, _)
InsertDesc_before_equals(sorted, x) ==
    IF sorted = <<>> THEN <<x>>
    ELSE IF Head(sorted).final_score > x.final_score
         THEN <<Head(sorted)>> \o InsertDesc_before_equals(Tail(sorted), x)
         ELSE <<x>> \o sorted

\* list.sort(key=final_score, reverse=True): stable, so an element goes
\* behind the elements that score at least as much
RECURSIVE InsertDesc(_, _)
InsertDesc(sorted, x) ==
    IF sorted = <<>> THEN <<x>>
    ELSE IF Head(sorted).final_score >= x.final_score
         THEN <<Head(sorted)>> \o InsertDesc(Tail(sorted), x)
         ELSE <<x>> \o sorted

RECURSIVE SortDesc(_, _)
SortDesc(list, i) ==
    IF i = 0 THEN <<>> ELSE InsertDesc(SortDesc(list, i - 1), list[i])

\* The loop over places; the result is [exc, ranked]: exc is None, or the
\* exception that name_overlap_score raises on a name that is None
RECURSIVE RankLoop(_, _, _, _, _)
RankLoop(places, i, target_lat, target_name, max_distance) ==
    IF i > Len(places) THEN [exc |-> None, ranked |-> <<>>]
    ELSE LET place == places[i]
             rest == RankLoop(places, i + 1, target_lat, target_name, max_distance)
         IN  IF IsNone(place.lat) \/ IsNone(place.lon) THEN rest
             ELSE LET distance == haversine_distance(target_lat, Val(place.lat))
                  IN  IF distance > max_distance THEN rest
                      ELSE IF IsNone(place.name)
                           THEN [exc |-> Some("TypeError"), ranked |-> <<>>]
                           ELSE IF ~IsNone(rest.exc) THEN rest
                           ELSE [exc |-> None,
                                 ranked |->
                                   <<Ranked(place, distance, max_distance,
                                            name_overlap_score(target_name,
                                                               Val(place.name)))>>
                                   \o rest.ranked]

\* Mutant of default_max_distance: the radius itself is the limit
default_max_distance_radius(radius) == radius

\* Lines 263-264: max_distance = self.range * 2 when none is given
default_max_distance(radius) == radius * 2

rank_matched_places(places, target_lat, target_name, radius) ==
    IF places = <<>> THEN [exc |-> None, ranked |-> <<>>]
    ELSE LET max_distance == default_max_distance(radius)
             r == RankLoop(places, 1, target_lat, target_name, max_distance)
         IN  IF ~IsNone(r.exc) THEN r
             ELSE [exc |-> None, ranked |-> SortDesc(r.ranked, Len(r.ranked))]

\* ------------------------------------------------------------------------
\* OSMMatcher.set_radius_from_string: [ok, range], ok being the returned
\* flag and range the new self.range
\* ------------------------------------------------------------------------
IndexOf(seq, v) == CHOOSE i \in 1..Len(seq) : seq[i] = v

\* RANGES[k] for a Python index k: a negative k counts from the end, and an
\* index out of range raises IndexError (None here)
PyIndex(seq, k) ==
    IF k >= 0 /\ k < Len(seq) THEN Some(seq[k + 1])
    ELSE IF k < 0 /\ -k <= Len(seq) THEN Some(seq[Len(seq) + k + 1])
    ELSE None

\* Mutant of set_radius_from_string: zoom-out moves as zoom-in does
set_radius_zoom_out_inverted(cur_range, input_str) ==
    IF input_str = ZOOM_OUT \/ input_str = ZOOM_IN
    THEN LET new_index == (IndexOf(RANGES, cur_range) - 1) - 1
             got == PyIndex(RANGES, new_index)
         IN  [ok |-> TRUE,
              range |-> IF IsNone(got) THEN DEFAULT_RANGE ELSE Val(got)]
    ELSE IF input_str = EXIT
    THEN [ok |-> FALSE, range |-> cur_range]
    ELSE [ok |-> TRUE, range |-> DEFAULT_RANGE]

\* Mutant of set_radius_from_string: zoom-out triples the radius instead of
\* taking the next entry of RANGES
set_radius_zoom_out_scaled(cur_range, input_str) ==
    IF input_str = ZOOM_OUT
    THEN [ok |-> TRUE, range |-> cur_range * 3]
    ELSE IF input_str = ZOOM_IN
    THEN LET new_index == (IndexOf(RANGES, cur_range) - 1) - 1
             got == PyIndex(RANGES, new_index)
         IN  [ok |-> TRUE,
              range |-> IF IsNone(got) THEN DEFAULT_RANGE ELSE Val(got)]
    ELSE IF input_str = EXIT
    THEN [ok |-> FALSE, range |-> cur_range]
    ELSE [ok |-> TRUE, range |-> DEFAULT_RANGE]

set_radius_from_string(cur_range, input_str) ==
    IF input_str = ZOOM_OUT
    THEN LET new_index == (IndexOf(RANGES, cur_range) - 1) + 1
             got == PyIndex(RANGES, new_index)
         IN  [ok |-> TRUE,
              range |-> IF IsNone(got) THEN DEFAULT_RANGE ELSE Val(got)]
    ELSE IF input_str = ZOOM_IN
    THEN LET new_index == (IndexOf(RANGES, cur_range) - 1) - 1
             got == PyIndex(RANGES, new_index)
         IN  [ok |-> TRUE,
              range |-> IF IsNone(got) THEN DEFAULT_RANGE ELSE Val(got)]
    ELSE IF input_str = EXIT
    THEN [ok |-> FALSE, range |-> cur_range]
    ELSE [ok |-> TRUE, range |-> DEFAULT_RANGE]


\* ------------------------------------------------------------------------
\* The session: OSMMatcher.process_places_to_kml and the methods it calls
\* ------------------------------------------------------------------------
VARIABLES
    pc,               \* where process_places_to_kml stands
    input_file,       \* the input file: its state and its number of features
    output_file,      \* the output file: None, or Some(document)
    match_method,     \* arguments of process_places_to_kml; overwrite_output
    threshold,        \* is only read on entry and is not kept
    nfeat,            \* len(features)
    feature,          \* feature of the loop: None before the first one
    idx,              \* idx of the loop (from 1)
    range,            \* self.range
    successful,       \* self.successful
    skipped,          \* self.skipped
    kml_obj,          \* self.kml_obj: None, or Some(list of placemarks)
    stop_requested,   \* self.stop_requested
    pending,          \* the call of user_match_selection that has not returned
    ev,               \* what the last step did (history)
    \* the window (geopro/apps/osm.py)
    match_selection_loop,  \* self.match_selection_loop: None or the event loop
    loop_state,       \* the QEventLoop made last: created, running or exited
    selected_match,   \* self.selected_match
    cb_pc,            \* where trigger_user_match_selection stands
    prompt,           \* the request emitted to the window: queued or shown
    close_pc,         \* where closeEvent stands
    \* one call of overpass_request
    req_pc,           \* where overpass_request stands
    attempt,          \* attempt of its for loop
    outcomes,         \* what each attempt met (history)
    waits,            \* the arguments of time.sleep so far (history)
    result,           \* what the call returned
    \* one call of a function of the libraries, or of the constructor
    fn,               \* the function called: "none" before the call
    arg,              \* its arguments
    ret               \* what it returned or raised

gui_vars == <<match_selection_loop, loop_state, selected_match, cb_pc, prompt,
              close_pc>>

req_vars == <<req_pc, attempt, outcomes, waits, result>>

pure_vars == <<fn, arg, ret>>

vars == <<pc, input_file, output_file, match_method, threshold,
          nfeat, feature, idx, range, successful, skipped, kml_obj,
          stop_requested, pending, ev, gui_vars, req_vars, pure_vars>>

\* A placemark as write_to_kml builds it: the icon and the feature types
\* are only present when they are given and not empty
Placemark(place_name, place_lat, place_lon, place_desc, icon_name, feature_types) ==
    [name |-> place_name, lat |-> place_lat, lon |-> place_lon,
     description |-> place_desc,
     icon |-> IF IsNone(icon_name) \/ icon_name = Some("") THEN None ELSE icon_name,
     feature_types |-> feature_types]

write_to_kml(doc, place_name, place_lat, place_lon, place_desc, icon_name, feature_types) ==
    Append(doc, Placemark(place_name, place_lat, place_lon, place_desc,
                          icon_name, feature_types))

\* The placemark of the original point of feature f
Original(f) ==
    Placemark(Some(f.name), Some(f.coordinates[2]), Some(f.coordinates[1]),
              f.description, None, {})

OldDocument == <<Placemark(Some(Bar42), Some(1), Some(1), "old", None, {})>>

\* Values user_match_selection can return: an int, a str, or something else
IntSel(i) == [t |-> "int", i |-> i, s |-> ""]
StrSel(s) == [t |-> "str", i |-> 0, s |-> s]
OtherSel == [t |-> "other", i |-> 0, s |-> ""]
NoSel == [t |-> "none", i |-> 0, s |-> ""]

Selections ==
    { IntSel(i) : i \in (-2)..MaxElements }
    \cup { StrSel(s) : s \in {ZOOM_IN, ZOOM_OUT, EXIT, "bogus"} }
    \cup { OtherSel }

\* The part of the session state that the per-feature methods change, and
\* the calls of update_function they make
Sess(succ, skip, doc, rng, upd) ==
    [successful |-> succ, skipped |-> skip, kml |-> doc, range |-> rng,
     updates |-> upd]

Update(s) == [s EXCEPT !.updates = Append(@, <<s.successful, s.skipped>>)]

\* Mutant of handle_empty_best: the miss is counted as a success
handle_empty_best_success(s, f) ==
    Update([s EXCEPT !.successful = @ + 1,
                     !.kml = Append(@, Original(f))])

\* handle_empty_osm_data, match_method = BEST (lines 430-434): returns False
handle_empty_best(s, f) ==
    Update([s EXCEPT !.skipped = @ + 1,
                     !.kml = Append(@, Original(f))])

\* handle_empty_osm_data after user_match_selection has returned selection
\* (lines 437-452): ret is "True", "False" or "ValueError"
handle_empty_osm_data(s, f, selection) ==
    IF selection.t = "str"
    THEN LET r == set_radius_from_string(s.range, selection.s)
         IN  IF ~r.ok
             THEN [s |-> s, ret |-> "ValueError"]
             ELSE [s |-> [s EXCEPT !.range = r.range], ret |-> "True"]
    ELSE IF selection.t = "int" /\ selection.i = -1
    THEN [s |-> Update([s EXCEPT !.successful = @ + 1,
                                 !.kml = Append(@, Original(f))]),
          ret |-> "False"]
    ELSE [s |-> Update([s EXCEPT !.skipped = @ + 1,
                                 !.kml = Append(@, Original(f))]),
          ret |-> "False"]

\* Mutant of retrieve_user_selection: a rejection is counted as skipped
retrieve_user_selection_reject_skips(s, f, selection) ==
    IF selection.t = "str"
    THEN LET r == set_radius_from_string(s.range, selection.s)
         IN  IF ~r.ok
             THEN [s |-> s, user_choice |-> "EXIT"]
             ELSE [s |-> [s EXCEPT !.range = r.range], user_choice |-> "NEW_RADIUS"]
    ELSE IF selection.t = "int" /\ selection.i >= 0
    THEN [s |-> s, user_choice |-> "VALID_ITEM"]
    ELSE [s |-> Update([s EXCEPT !.skipped = @ + 1,
                                 !.kml = Append(@, Original(f))]),
          user_choice |-> "OTHER_ITEM"]

\* retrieve_user_selection after user_match_selection has returned
\* selection (lines 457-475): the user_choice and the changed session
retrieve_user_selection(s, f, selection) ==
    IF selection.t = "str"
    THEN LET r == set_radius_from_string(s.range, selection.s)
         IN  IF ~r.ok
             THEN [s |-> s, user_choice |-> "EXIT"]
             ELSE [s |-> [s EXCEPT !.range = r.range], user_choice |-> "NEW_RADIUS"]
    ELSE IF selection.t = "int" /\ selection.i >= 0
    THEN [s |-> s, user_choice |-> "VALID_ITEM"]
    ELSE IF selection.t = "int" /\ selection.i = -1
    THEN [s |-> Update([s EXCEPT !.successful = @ + 1,
                                 !.kml = Append(@, Original(f))]),
          user_choice |-> "OTHER_ITEM"]
    ELSE [s |-> Update([s EXCEPT !.skipped = @ + 1,
                                 !.kml = Append(@, Original(f))]),
          user_choice |-> "OTHER_ITEM"]

\* Mutant of write_match: the placemark is put at the feature's own point
write_match_at_origin(s, f, best_match) ==
    [s EXCEPT !.successful = @ + 1,
              !.kml = write_to_kml(@, best_match.name, Some(f.coordinates[2]),
                                   Some(f.coordinates[1]), f.description,
                                   get_place_icon(best_match),
                                   get_place_features(best_match))]

\* Lines 627-643: the best match is classified and written
write_match(s, f, best_match) ==
    [s EXCEPT !.successful = @ + 1,
              !.kml = write_to_kml(@, best_match.name, best_match.lat,
                                   best_match.lon, f.description,
                                   get_place_icon(best_match),
                                   get_place_features(best_match))]

\* Mutant of on_exception: the failed feature is not counted
on_exception_uncounted(s) == s

\* Lines 645-647: the handler of an exception raised in the feature's body
on_exception(s) == [s EXCEPT !.skipped = @ + 1]


\* How one pass through the body of the while loop (lines 550-643) ends:
\*   "done"    the loop is left by break or with match_successful
\*   "raised"  an exception reaches the handler of line 645
\*   "again"   continue: a new search
\*   "await"   user_match_selection has been called and has not returned
\*   "return"  process_places_to_kml returns (line 608 or 620)
Outcome(kind, s, exc, cands, ranked, ctx) ==
    [kind |-> kind, s |-> s, exc |-> exc, cands |-> cands, ranked |-> ranked,
     ctx |-> ctx]

\* Mutant of above_threshold: a score equal to the threshold is not accepted
above_threshold_strict(score, thr) == score > thr

\* Line 596: score >= threshold
above_threshold(score, thr) == score >= thr

\* Mutant of pick: the index is ignored and the top candidate is taken
pick_first(ranked_matches, selection) ==
    IF selection < Len(ranked_matches) THEN Some(ranked_matches[1])
    ELSE None

\* Lines 606 and 618: ranked_matches[selection], selection >= 0; None stands
\* for the IndexError of an index past the end
pick(ranked_matches, selection) ==
    IF selection < Len(ranked_matches) THEN Some(ranked_matches[selection + 1])
    ELSE None

\* Mutant of empty_is_automatic: an empty search always asks the user
empty_is_automatic_never(method) == FALSE

\* Line 430: with no candidates, policy best writes the original point
\* itself and the other policies call user_match_selection
empty_is_automatic(method) == method = BEST

\* Mutant of no_candidates: only the failure value counts as no candidates
no_candidates_none_only(candidates) == IsNone(candidates)

\* Line 564, if not candidates: None and the empty list are both false
no_candidates(candidates) == IsNone(candidates) \/ Val(candidates) = <<>>

\* Lines 555-625, from the search to the accepted match or to the call of
\* user_match_selection; data is what overpass_request returns
after_search(s, f, method, thr, data) ==
    LET candidates == search_places_around(f.name, data)
        lat == f.coordinates[2]
        cands == IF IsNone(candidates) THEN "none"
                 ELSE IF Val(candidates) = <<>> THEN "empty" ELSE "some"
    IN  IF no_candidates(candidates)
        THEN IF empty_is_automatic(method)
             THEN Outcome("done", handle_empty_best(s, f), None, cands, <<>>, "")
             ELSE Outcome("await", s, None, cands, <<>>, "empty")
        ELSE LET r == rank_matched_places(Val(candidates), lat, f.name, s.range)
                 ranked_matches == r.ranked
             IN  IF ~IsNone(r.exc)
                 THEN Outcome("raised", s, r.exc, cands, <<>>, "")
                 ELSE IF method = BEST
                 THEN IF ranked_matches = <<>>
                      THEN Outcome("raised", s, Some("IndexError"), cands,
                                   ranked_matches, "")
                      ELSE Outcome("done", write_match(s, f, ranked_matches[1]),
                                   None, cands, ranked_matches, "")
                 ELSE IF method = THRESHOLD
                 THEN IF IsNone(thr)
                      THEN Outcome("done",
                                   Update([s EXCEPT !.skipped = @ + 1,
                                                    !.kml = Append(@, Original(f))]),
                                   None, cands, ranked_matches, "")
                      ELSE IF ranked_matches = <<>>
                      THEN Outcome("raised", s, Some("IndexError"), cands,
                                   ranked_matches, "")
                      ELSE IF above_threshold(ranked_matches[1].final_score, Val(thr))
                      THEN Outcome("done", write_match(s, f, ranked_matches[1]),
                                   None, cands, ranked_matches, "")
                      ELSE Outcome("await", s, None, cands, ranked_matches, "ranked")
                 ELSE IF method = ALL
                 THEN Outcome("await", s, None, cands, ranked_matches, "ranked")
                 ELSE Outcome("done", s, None, cands, ranked_matches, "")

\* Lines 565-568 and 601-622, from the return of user_match_selection on
after_selection(s, f, pend, selection) ==
    IF pend.ctx = "empty"
    THEN LET h == handle_empty_osm_data(s, f, selection)
         IN  IF h.ret = "ValueError"
             THEN Outcome("raised", h.s, Some("ValueError"), "", pend.ranked, pend.ctx)
             ELSE IF h.ret = "True"
             THEN Outcome("again", h.s, None, "", pend.ranked, pend.ctx)
             ELSE Outcome("done", h.s, None, "", pend.ranked, pend.ctx)
    ELSE LET u == retrieve_user_selection(s, f, selection)
         IN  IF u.user_choice = "NEW_RADIUS"
             THEN Outcome("again", u.s, None, "", pend.ranked, pend.ctx)
             ELSE IF u.user_choice = "VALID_ITEM"
             THEN LET best_match == pick(pend.ranked, selection.i)
                  IN  IF IsNone(best_match)
                      THEN Outcome("raised", u.s, Some("IndexError"), "",
                                   pend.ranked, pend.ctx)
                      ELSE Outcome("done", write_match(u.s, f, Val(best_match)),
                                   None, "", pend.ranked, pend.ctx)
             ELSE IF u.user_choice = "EXIT"
             THEN Outcome("return", u.s, None, "", pend.ranked, pend.ctx)
             ELSE Outcome("done", u.s, None, "", pend.ranked, pend.ctx)

\* Lines 645-652: the handler of the exception, and the update after the
\* feature
end_of_body(o) ==
    IF o.kind = "raised" THEN Update(on_exception(o.s))
    ELSE IF o.kind = "done" THEN Update(o.s)
    ELSE o.s

NoPending == [ctx |-> "", ranked |-> <<>>]

Pre == [successful |-> successful, skipped |-> skipped,
        nkml |-> IF IsNone(kml_obj) THEN 0 ELSE Len(Val(kml_obj)),
        range |-> range, idx |-> idx]

\* What a step did: the operation, the selection it was given, how it ended,
\* the exception caught, what the search returned, the length and the top of
\* the ranked list, the element the selection points at, the calls of
\* update_function, and the counters before the step
Event(op, sel, o, upd) ==
    [op |-> op, sel |-> sel, kind |-> o.kind, exc |-> o.exc, cands |-> o.cands,
     nranked |-> Len(o.ranked),
     top |-> IF op = "Search" /\ o.ranked # <<>> THEN Some(o.ranked[1]) ELSE None,
     picked |-> IF sel.t = "int" /\ sel.i >= 0 /\ sel.i < Len(o.ranked)
                THEN Some(o.ranked[sel.i + 1]) ELSE None,
     ctx |-> o.ctx, updates |-> upd, pre |-> Pre]

NoOutcome(kind) == Outcome(kind, <<>>, None, "", <<>>, "")

CurSess == Sess(successful, skipped, Val(kml_obj), range, <<>>)

\* Mutant of Settle: the list ranked first is kept over a change of radius
Settle_keeps_list(op, sel, o) ==
    LET s2 == end_of_body(o)
    IN  /\ successful' = s2.successful
        /\ skipped' = s2.skipped
        /\ kml_obj' = Some(s2.kml)
        /\ range' = s2.range
        /\ pending' = IF o.kind = "await"
                      THEN [ctx |-> o.ctx,
                            ranked |-> IF pending.ranked # <<>>
                                       THEN pending.ranked ELSE o.ranked]
                      ELSE IF o.kind = "again" THEN pending
                      ELSE NoPending
        /\ pc' = CASE o.kind = "await" -> "await"
                   [] o.kind = "again" -> "search"
                   [] o.kind = "return" -> "returned"
                   [] OTHER -> "feature"
        /\ idx' = IF o.kind \in {"done", "raised"} THEN idx + 1 ELSE idx
        /\ ev' = Event(op, sel, o, s2.updates)

\* The assignment of the session after a pass through the loop body
Settle(op, sel, o) ==
    LET s2 == end_of_body(o)
    IN  /\ successful' = s2.successful
        /\ skipped' = s2.skipped
        /\ kml_obj' = Some(s2.kml)
        /\ range' = s2.range
        /\ pending' = IF o.kind = "await"
                      THEN [ctx |-> o.ctx, ranked |-> o.ranked]
                      ELSE NoPending
        /\ pc' = CASE o.kind = "await" -> "await"
                   [] o.kind = "again" -> "search"
                   [] o.kind = "return" -> "returned"
                   [] OTHER -> "feature"
        /\ idx' = IF o.kind \in {"done", "raised"} THEN idx + 1 ELSE idx
        /\ ev' = Event(op, sel, o, s2.updates)

InputFiles ==
    { [state |-> st, n |-> 0] :
        st \in {"missing", "unparsable", "not_collection", "not_object"} }
    \cup { [state |-> "ok", n |-> n] : n \in 0..MaxFeatures }

\* The range argument of OSMMatcher.__init__
CtorRanges == {None, Some(50)}

Params ==
    { [method |-> BEST, threshold |-> None],
      [method |-> ALL, threshold |-> None],
      [method |-> THRESHOLD, threshold |-> None],
      [method |-> THRESHOLD, threshold |-> Some(700)],
      [method |-> "other", threshold |-> None] }

\* OSMMatcher.__init__
Init ==
    /\ pc = "idle"
    /\ input_file \in InputFiles
    /\ output_file \in {None, Some(OldDocument)}
    /\ match_method = BEST
    /\ threshold = None
    /\ nfeat = 0
    /\ feature = None
    /\ idx = 0
    /\ \E r \in CtorRanges : range = IF IsNone(r) THEN DEFAULT_RANGE ELSE Val(r)
    /\ successful = None
    /\ skipped = None
    /\ kml_obj = None
    /\ stop_requested = FALSE
    /\ pending = NoPending
    /\ ev = [op |-> "init", sel |-> NoSel, kind |-> "", exc |-> None, cands |-> "",
             nranked |-> 0, top |-> None, picked |-> None, ctx |-> "",
             updates |-> <<>>,
             pre |-> [successful |-> 0, skipped |-> 0, nkml |-> 0,
                      range |-> DEFAULT_RANGE, idx |-> 0]]
    /\ match_selection_loop = None
    /\ loop_state = "none"
    /\ selected_match = NoSel
    /\ cb_pc = "check"
    /\ prompt = "none"
    /\ close_pc = "idle"
    /\ req_pc = "idle"
    /\ attempt = 0
    /\ outcomes = <<>>
    /\ waits = <<>>
    /\ result = None
    /\ fn = "none"
    /\ arg = <<>>
    /\ ret = <<>>

\* Mutant of output_blocked: an existing output file is never in the way
output_blocked_never(exists, overwrite_output) == FALSE

\* Line 492: os.path.exists(output_file_path) and not overwrite_output
output_blocked(exists, overwrite_output) == exists /\ ~overwrite_output

\* Mutant of read_input: the type of the document is not tested
read_input_unchecked(f) ==
    CASE f.state = "unparsable" -> "failed"
      [] f.state = "not_object" -> "AttributeError"
      [] OTHER -> "loaded"

\* Lines 502-511: json.load inside the try block, whose failure is logged;
\* then data.get("type"), outside the try block, which a document that is
\* not a JSON object does not have
read_input(f) ==
    CASE f.state = "unparsable" -> "failed"
      [] f.state = "not_object" -> "AttributeError"
      [] f.state = "not_collection" -> "not_collection"
      [] OTHER -> "loaded"

\* Lines 488-511: how the call gets past the two path tests and the load
start_outcome(f, exists, overwrite_output) ==
    IF f.state = "missing" THEN "return"
    ELSE IF output_blocked(exists, overwrite_output) THEN "return"
    ELSE CASE read_input(f) = "loaded" -> "started"
           [] read_input(f) = "AttributeError" -> "propagated"
           [] OTHER -> "return"

\* process_places_to_kml, lines 481-522, called by execute (osm.py 737-762).
\* The event keeps the overwrite flag of the call.
Start(p, ow) ==
    LET how == start_outcome(input_file, ~IsNone(output_file), ow)
        o == [NoOutcome(how) EXCEPT !.ctx = IF ow THEN "overwrite" ELSE "keep"]
    IN
    /\ pc = "idle"
    /\ ~stop_requested
    /\ match_method' = p.method
    /\ threshold' = p.threshold
    /\ successful' = 0
    /\ skipped' = 0
    /\ ev' = [Event("Start", NoSel, o, <<>>) EXCEPT !.pre = ev.pre]
    /\ IF how = "started"
       THEN /\ nfeat' = input_file.n
            /\ idx' = 1
            /\ kml_obj' = Some(<<>>)
            /\ pc' = "feature"
       ELSE /\ pc' = IF how = "propagated" THEN "raised" ELSE "returned"
            /\ UNCHANGED <<nfeat, idx, kml_obj>>
    /\ UNCHANGED <<input_file, output_file, feature, range, stop_requested, pending>>
    /\ UNCHANGED <<gui_vars, req_vars, pure_vars>>

\* Mutant of loop_head_stops: the stop flag is not looked at
loop_head_stops_never(flag) == FALSE

\* Line 528: the test of self.stop_requested at the head of the for loop
loop_head_stops(flag) == flag

\* Mutant of range_at_feature: the radius is left as it is
range_at_feature_kept(current) == current

\* Line 532: self.range = DEFAULT_RANGE at the start of every feature
range_at_feature(current) == DEFAULT_RANGE

\* Mutant of invalid_geometry: the type of the geometry is not tested
invalid_geometry_untyped(f) == f.coordinates = <<>>

\* Line 539: not coordinates or geometry.get("type") != "Point"
invalid_geometry(f) == f.coordinates = <<>> \/ f.type # "Point"

\* Lines 527-548: the head of the for loop and the geometry of the feature
NextFeature(f) ==
    /\ pc = "feature"
    /\ idx <= nfeat
    /\ IF loop_head_stops(stop_requested)
       THEN /\ pc' = "returned"
            /\ ev' = Event("NextFeature", NoSel, NoOutcome("return"), <<>>)
            /\ UNCHANGED <<feature, idx, range, successful, skipped>>
       ELSE /\ range' = range_at_feature(range)
            /\ feature' = Some(f)
            /\ IF invalid_geometry(f)
               THEN /\ skipped' = skipped + 1
                    /\ successful' = successful
                    /\ idx' = idx + 1
                    /\ pc' = "feature"
                    /\ ev' = Event("NextFeature", NoSel, NoOutcome("invalid"), <<>>)
               ELSE IF Len(f.coordinates) # 2
               THEN /\ skipped' = skipped + 1
                    /\ successful' = successful
                    /\ idx' = idx + 1
                    /\ pc' = "feature"
                    /\ ev' = Event("NextFeature", NoSel,
                                   Outcome("raised", <<>>, Some("ValueError"),
                                           "", <<>>, ""),
                                   << <<successful, skipped + 1>> >>)
               ELSE /\ pc' = "search"
                    /\ ev' = Event("NextFeature", NoSel, NoOutcome("valid"), <<>>)
                    /\ UNCHANGED <<idx, successful, skipped>>
    /\ UNCHANGED <<input_file, output_file, match_method, threshold, nfeat, kml_obj, stop_requested, pending>>
    /\ UNCHANGED <<gui_vars, req_vars, pure_vars>>

\* Lines 550-643: a search, the ranking and the policy, up to the accepted
\* match or to the call of user_match_selection
Search(data) ==
    /\ pc = "search"
    /\ Settle("Search", NoSel,
              after_search(CurSess, Val(feature), match_method, threshold, data))
    /\ UNCHANGED <<input_file, output_file, match_method, threshold, nfeat, feature, stop_requested>>
    /\ UNCHANGED <<gui_vars, req_vars, pure_vars>>

\* user_match_selection returns, and the loop body goes on from there. The
\* exit command is what the callback returns once stop has been requested
\* (osm.py 428-429 and 770-775).
Select(selection) ==
    /\ pc = "await"
    /\ selection = StrSel(EXIT) => stop_requested
    /\ Settle("Select", selection,
              after_selection(CurSess, Val(feature), pending, selection))
    /\ UNCHANGED <<input_file, output_file, match_method, threshold, nfeat, feature, stop_requested>>
    /\ UNCHANGED <<gui_vars, req_vars, pure_vars>>

\* Lines 657-671: the document is written and the last update is sent
Finalize(writable) ==
    /\ pc = "feature"
    /\ idx > nfeat
    /\ output_file' = IF writable THEN kml_obj ELSE output_file
    /\ pc' = "returned"
    /\ ev' = Event("Finalize", NoSel,
                   NoOutcome(IF writable THEN "written" ELSE "failed"),
                   << <<successful, skipped>> >>)
    /\ UNCHANGED <<input_file, match_method, threshold, nfeat,
                   feature, idx, range, successful, skipped, kml_obj,
                   stop_requested, pending>>
    /\ UNCHANGED <<gui_vars, req_vars, pure_vars>>

\* closeEvent (osm.py 770): the stop flag is set from the window's thread
RequestStop ==
    /\ pc \notin {"returned", "raised"}
    /\ ~stop_requested
    /\ stop_requested' = TRUE
    /\ UNCHANGED <<pc, input_file, output_file, match_method, threshold, nfeat, feature, idx, range, successful,
                   skipped, kml_obj, pending, ev>>
    /\ UNCHANGED <<gui_vars, req_vars, pure_vars>>

Next ==
    \/ \E p \in Params, ow \in BOOLEAN : Start(p, ow)
    \/ \E f \in FeatureKinds : NextFeature(f)
    \/ \E data \in Responses : Search(data)
    \/ \E selection \in Selections : Select(selection)
    \/ \E writable \in BOOLEAN : Finalize(writable)
    \/ RequestStop

Spec == Init /\ [][Next]_vars

TypeOK ==
    /\ pc \in {"idle", "feature", "search", "await", "returned", "raised"}
    /\ stop_requested \in BOOLEAN


\* ------------------------------------------------------------------------
\* The window: geopro/apps/osm.py. The session's user_match_selection is
\* trigger_user_match_selection, which runs on the worker thread (base.py
\* 241-242); the handlers of the window run on the window's thread, one at
\* a time, and none runs while closeEvent has not returned.
\* QEventLoop: exec_() clears the loop's exit flag and runs until quit()
\* sets it, so a quit() that comes before exec_() is lost.
\* ------------------------------------------------------------------------
loop_vars == <<pc, idx, range, successful, skipped, kml_obj, pending, ev>>

call_vars == <<input_file, output_file, match_method, threshold, nfeat, feature>>

\* QEventLoop.quit() on the loop made last
quit(state) == IF state = "running" THEN "exited" ELSE state

\* Lines 428-431: the test of the stop flag, and the request emitted to the
\* window
CbCheck ==
    /\ pc = "await"
    /\ cb_pc = "check"
    /\ IF stop_requested
       THEN /\ Settle("Select", StrSel(EXIT),
                      after_selection(CurSess, Val(feature), pending, StrSel(EXIT)))
            /\ UNCHANGED <<cb_pc, prompt>>
       ELSE /\ cb_pc' = "register"
            /\ prompt' = "queued"
            /\ UNCHANGED loop_vars
    /\ UNCHANGED <<call_vars, stop_requested, match_selection_loop, loop_state,
                   selected_match, close_pc, req_vars, pure_vars>>

\* Line 434: self.match_selection_loop = QEventLoop()
CbRegister ==
    /\ pc = "await"
    /\ cb_pc = "register"
    /\ match_selection_loop' = Some("loop")
    /\ loop_state' = "created"
    /\ cb_pc' = "exec"
    /\ UNCHANGED <<loop_vars, call_vars, stop_requested, selected_match, prompt,
                   close_pc, req_vars, pure_vars>>

\* Line 435: self.match_selection_loop is read and exec_() is entered; on
\* None the attribute access raises AttributeError, which the handler of
\* process_places_to_kml (line 645) catches
CbExec ==
    /\ pc = "await"
    /\ cb_pc = "exec"
    /\ IF IsNone(match_selection_loop)
       THEN /\ Settle("Select", NoSel,
                      Outcome("raised", CurSess, Some("AttributeError"), "",
                              pending.ranked, pending.ctx))
            /\ cb_pc' = "check"
            /\ loop_state' = "none"
       ELSE /\ loop_state' = "running"
            /\ cb_pc' = "wait"
            /\ UNCHANGED loop_vars
    /\ UNCHANGED <<call_vars, stop_requested, match_selection_loop,
                   selected_match, prompt, close_pc, req_vars, pure_vars>>

\* Lines 435-446: exec_() returns once the loop has been quit, and
\* self.selected_match is read and returned; the status signal of line 444
\* lets the window disable its buttons again (lines 448-452, 713-718)
CbReturn ==
    /\ pc = "await"
    /\ cb_pc = "wait"
    /\ loop_state = "exited"
    /\ Settle("Select", selected_match,
              after_selection(CurSess, Val(feature), pending, selected_match))
    /\ cb_pc' = "check"
    /\ loop_state' = "none"
    /\ prompt' = "none"
    /\ UNCHANGED <<call_vars, stop_requested, match_selection_loop,
                   selected_match, close_pc, req_vars, pure_vars>>

\* user_match_selection (lines 398-424), the slot of the request: the
\* selection is reset and the buttons are enabled
ShowPrompt ==
    /\ close_pc = "idle"
    /\ prompt = "queued"
    /\ selected_match' = NoSel
    /\ prompt' = "shown"
    /\ UNCHANGED <<loop_vars, call_vars, stop_requested, match_selection_loop,
                   loop_state, cb_pc, close_pc, req_vars, pure_vars>>

\* What the enabled buttons can give (lines 320-351, 364-365 and 418-424):
\* the original location, a row of the table, and a radius command while
\* the radius is not at that end of RANGES
Clicks ==
    {IntSel(-1)}
    \cup { IntSel(i) : i \in 0..(Len(pending.ranked) - 1) }
    \cup (IF range \in { RANGES[i] : i \in 2..Len(RANGES) }
          THEN {StrSel(ZOOM_IN)} ELSE {})
    \cup (IF range \in { RANGES[i] : i \in 1..(Len(RANGES) - 1) }
          THEN {StrSel(ZOOM_OUT)} ELSE {})

\* on_button_select_org_loc, on_button_select_match and on_button_range
\* (lines 320-351)
Click(selection) ==
    /\ close_pc = "idle"
    /\ prompt = "shown"
    /\ selection \in Clicks
    /\ selected_match' = selection
    /\ IF IsNone(match_selection_loop)
       THEN UNCHANGED <<match_selection_loop, loop_state>>
       ELSE /\ loop_state' = quit(loop_state)
            /\ match_selection_loop' = None
    /\ UNCHANGED <<loop_vars, call_vars, stop_requested, cb_pc, prompt, close_pc,
                   req_vars, pure_vars>>

\* closeEvent, line 770: self.osm_matcher.stop_requested = True
CloseStop ==
    /\ close_pc = "idle"
    /\ stop_requested' = TRUE
    /\ close_pc' = "test"
    /\ UNCHANGED <<loop_vars, call_vars, match_selection_loop, loop_state,
                   selected_match, cb_pc, prompt, req_vars, pure_vars>>

\* closeEvent, line 773: if self.match_selection_loop is not None
CloseTest ==
    /\ close_pc = "test"
    /\ close_pc' = IF IsNone(match_selection_loop) THEN "join" ELSE "set"
    /\ UNCHANGED <<loop_vars, call_vars, stop_requested, match_selection_loop,
                   loop_state, selected_match, cb_pc, prompt, req_vars, pure_vars>>

\* closeEvent, line 774: self.selected_match = Commands.EXIT
CloseSet ==
    /\ close_pc = "set"
    /\ selected_match' = StrSel(EXIT)
    /\ close_pc' = "quit"
    /\ UNCHANGED <<loop_vars, call_vars, stop_requested, match_selection_loop,
                   loop_state, cb_pc, prompt, req_vars, pure_vars>>

\* closeEvent, line 775: self.match_selection_loop.quit()
CloseQuit ==
    /\ close_pc = "quit"
    /\ loop_state' = quit(loop_state)
    /\ close_pc' = "clear"
    /\ UNCHANGED <<loop_vars, call_vars, stop_requested, match_selection_loop,
                   selected_match, cb_pc, prompt, req_vars, pure_vars>>

\* closeEvent, line 776: self.match_selection_loop = None
CloseClear ==
    /\ close_pc = "clear"
    /\ match_selection_loop' = None
    /\ close_pc' = "join"
    /\ UNCHANGED <<loop_vars, call_vars, stop_requested, loop_state,
                   selected_match, cb_pc, prompt, req_vars, pure_vars>>

\* BaseGeoProApp.closeEvent (base.py 521-528): thread_execution.join()
\* returns when execute has returned, or there is no thread to join
CloseJoin ==
    /\ close_pc = "join"
    /\ pc \in {"idle", "returned", "raised"}
    /\ close_pc' = "closed"
    /\ UNCHANGED <<loop_vars, call_vars, stop_requested, match_selection_loop,
                   loop_state, selected_match, cb_pc, prompt, req_vars, pure_vars>>

\* What execute passes on (osm.py 748-762): one of the three methods
GuiParams == { p \in Params : p.method \in {ALL, BEST, THRESHOLD} }

GuiResponses == { d \in Responses : IsNone(d) \/ Len(Val(d)) <= 1 }

NextClose ==
    \/ \E p \in GuiParams, ow \in BOOLEAN : Start(p, ow)
    \/ \E f \in FeatureKinds : NextFeature(f)
    \/ \E data \in GuiResponses : Search(data)
    \/ \E writable \in BOOLEAN : Finalize(writable)
    \/ CbCheck
    \/ CbRegister
    \/ CbExec
    \/ CbReturn
    \/ ShowPrompt
    \/ \E selection \in Selections : Click(selection)
    \/ CloseStop
    \/ CloseTest
    \/ CloseSet
    \/ CloseQuit
    \/ CloseClear
    \/ CloseJoin

SpecClose == Init /\ [][NextClose]_vars


\* ------------------------------------------------------------------------
\* OSMMatcher.overpass_request (lines 132-175): one call, attempt by attempt
\* ------------------------------------------------------------------------
max_retries == 5

\* What an attempt can meet: a JSON response that parses, status 429 or
\* 504, another error status, a response that is not JSON (with or without
\* the duplicate_query text), a JSON response that does not parse, and a
\* transport error of requests.post
AttemptKinds ==
    {"json", "429", "504", "http_error", "non_json", "duplicate", "bad_json",
     "transport"}

Bodies == { Val(d) : d \in GuiResponses \ {None} }

Attempts ==
    { [kind |-> "json", body |-> b] : b \in Bodies }
    \cup { [kind |-> k, body |-> <<>>] : k \in AttemptKinds \ {"json"} }

\* Mutant of raised_by: the duplicate_query text is not recognised and the
\* response counts as any other non-JSON response
raised_by_no_duplicate(kind) ==
    CASE kind \in {"429", "504", "http_error"} -> "HTTPError"
      [] kind \in {"non_json", "duplicate"} -> "ValueError"
      [] kind = "bad_json" -> "JSONDecodeError"
      [] OTHER -> "ConnectionError"

\* The exception the try block raises for an attempt that does not return
raised_by(kind) ==
    CASE kind \in {"429", "504", "http_error"} -> "HTTPError"
      [] kind = "non_json" -> "ValueError"
      [] kind = "duplicate" -> "DuplicateError"
      [] kind = "bad_json" -> "JSONDecodeError"
      [] OTHER -> "ConnectionError"

\* Mutant of except_Exception: only HTTP errors are caught
except_HTTPError(exc) == exc = "HTTPError"

\* Line 166, except Exception: every exception class of the model derives
\* from Exception
except_Exception(exc) ==
    exc \in {"HTTPError", "ValueError", "JSONDecodeError", "ConnectionError",
             "DuplicateError"}

RECURSIVE Pow2(_)
Pow2(n) == IF n = 0 THEN 1 ELSE 2 * Pow2(n - 1)

\* Mutant of backoff: the wait is not capped
backoff_uncapped(n) == Pow2(n)

\* Line 167: wait = min(2 ** attempt, 30)
backoff(n) == Min(Pow2(n), 30)

\* Mutant of last_attempt: the loop runs one attempt more
last_attempt_off_by_one(n) == n >= max_retries + 1

\* Line 133: range(1, max_retries + 1) is exhausted after this attempt
last_attempt(n) == n >= max_retries

\* search_places_around, line 211: overpass_request is called
Request ==
    /\ req_pc = "idle"
    /\ req_pc' = "try"
    /\ attempt' = 1
    /\ outcomes' = <<>>
    /\ waits' = <<>>
    /\ result' = None
    /\ UNCHANGED <<loop_vars, call_vars, stop_requested, gui_vars, pure_vars>>

\* Lines 134-171: one attempt, up to the return, the break or the call of
\* time.sleep
Attempt(a) ==
    /\ req_pc = "try"
    /\ outcomes' = Append(outcomes, a)
    /\ IF a.kind = "json"
       THEN /\ result' = Some(a.body)
            /\ req_pc' = "returned"
            /\ UNCHANGED waits
       ELSE IF raised_by(a.kind) = "DuplicateError"
       THEN /\ result' = None
            /\ req_pc' = "returned"
            /\ UNCHANGED waits
       ELSE IF except_Exception(raised_by(a.kind))
       THEN /\ waits' = Append(waits, backoff(attempt))
            /\ req_pc' = "sleep"
            /\ UNCHANGED result
       ELSE /\ req_pc' = "raised"
            /\ UNCHANGED <<waits, result>>
    /\ UNCHANGED <<attempt, loop_vars, call_vars, stop_requested, gui_vars, pure_vars>>

\* Lines 172-175 and 133: time.sleep returns; the loop takes the next
\* attempt or ends, and then None is returned
Sleep ==
    /\ req_pc = "sleep"
    /\ IF last_attempt(attempt)
       THEN /\ req_pc' = "returned"
            /\ result' = None
            /\ UNCHANGED attempt
       ELSE /\ req_pc' = "try"
            /\ attempt' = attempt + 1
            /\ UNCHANGED result
    /\ UNCHANGED <<outcomes, waits, loop_vars, call_vars, stop_requested, gui_vars, pure_vars>>

NextRequest ==
    \/ Request
    \/ \E a \in Attempts : Attempt(a)
    \/ Sleep

\* The session variables play no part in a request: one initial state
InitRequest ==
    /\ Init
    /\ input_file = [state |-> "ok", n |-> 0]
    /\ output_file = None
    /\ range = DEFAULT_RANGE

SpecRequest == InitRequest /\ [][NextRequest]_vars


\* ------------------------------------------------------------------------
\* The functions of the rule engine and of the scoring, one call each:
\* leave_longest_types, MapcssRule.matches, rank_matched_places and
\* name_overlap_score applied to arguments drawn from bounded sets.
\* ------------------------------------------------------------------------
session_vars == <<loop_vars, call_vars, stop_requested, gui_vars, req_vars>>

\* Type-token paths as the ruleset gives them: one to four tokens, several
\* with the same first two tokens
TypePaths ==
    { <<"amenity">>,
      <<"amenity", "parking">>,
      <<"amenity", "parking", "fee">>,
      <<"amenity", "parking", "private">>,
      <<"amenity", "parking", "fee", "card">>,
      <<"amenity", "cafe">>,
      <<"building">> }

\* The lists of matched types: any paths in any order, repeats included
MatchedTypes == SeqsUpTo(TypePaths, MaxTypes)

TagPool ==
    { OsmTag("amenity", "cafe"), OsmTag("amenity", "bar"),
      OsmTag("fee", "yes"), OsmTag("fee", "no"),
      OsmTag("disused", "yes"), OsmTag("disused", "no") }

\* The tags of a place come from a dict: a key occurs once
TagDicts ==
    { ts \in SUBSET TagPool : \A t, u \in ts : t.key = u.key => t = u }

RuleKinds ==
    { Rule(ts, m, f) :
        ts \in SUBSET {OsmTag("amenity", "cafe"), OsmTag("fee", "yes")},
        m \in SUBSET {"fee"},
        f \in SUBSET {"disused", "fee"} }

\* Candidates as search_places_around returns them, around a target at
\* latitude 0: pairs at the same distance with the same name, a better
\* name, a worse name, one that is in reach of the larger radius only, one
\* at twice the smaller radius exactly, and one whose tags hold no name
Candidate(id, name, lat) ==
    [id |-> id, name |-> Some(name), lat |-> Some(lat), lon |-> Some(0),
     original_tags |-> {}]

Nameless(id, lat) == [Candidate(id, <<>>, lat) EXCEPT !.name = None]

PlaceKinds ==
    { Candidate(1, Luna, 5), Candidate(2, Luna, -5), Candidate(3, LunaCafe, 5),
      Candidate(4, Bar42, 5), Candidate(5, Bar42, -5), Candidate(6, Luna, 30),
      Candidate(7, Luna, 20), Nameless(8, 3) }

PlaceLists ==
    { q \in SeqsUpTo(PlaceKinds, MaxPlaces) :
        \A i, j \in 1..Len(q) : i # j => q[i] # q[j] }

NameKinds ==
    { CafeLuna, LunaCafe, Luna, Bar42,
      <<"L", "a">>,
      <<"L", "a", " ", "L", "u", "n", "a">>,
      <<"l", "u", "n", "a">>,
      <<"B", "a", "r">>,
      <<"4", "2">>,
      <<>> }

Call(f, a, r) ==
    /\ fn = "none"
    /\ fn' = f
    /\ arg' = a
    /\ ret' = r
    /\ UNCHANGED session_vars

LeaveLongest(matched_types) ==
    Call("leave_longest_types", matched_types, leave_longest_types(matched_types))

Matches(rule, tags) ==
    Call("matches", [rule |-> rule, tags |-> tags], matches(rule, tags))

Rank(places, radius) ==
    Call("rank_matched_places",
         [places |-> places, target_lat |-> 0, target_name |-> CafeLuna,
          radius |-> radius],
         rank_matched_places(places, 0, CafeLuna, radius))

\* Tags of a candidate over the categories of the icon mapping; a value
\* may be the empty string
IconTagPool ==
    { OsmTag("amenity", "cafe"), OsmTag("amenity", "parking"),
      OsmTag("amenity", ""), OsmTag("building", "yes"),
      OsmTag("shop", "bakery"), OsmTag("shop", "kiosk"),
      OsmTag("fee", "yes") }

IconTagDicts ==
    { ts \in SUBSET IconTagPool : \A t, u \in ts : t.key = u.key => t = u }

\* Rows of a ruleset file: an empty row, a comment, a row with an empty
\* first field, short rows (one with a third field, one whose type has one
\* token), full rows with one and with two selectors, a row of 4 fields,
\* full rows with a selector without brackets and with a piece "a=b=c",
\* and a row marked "x" whose selector has no brackets
ParkingFee ==
    Selector(TRUE, <<Piece(FALSE, <<"amenity", "parking">>), Piece(FALSE, <<"fee">>)>>)

BarInUse ==
    Selector(TRUE, <<Piece(FALSE, <<"amenity", "bar">>), Piece(TRUE, <<"disused">>)>>)

Pub == Selector(TRUE, <<Piece(FALSE, <<"amenity", "pub">>)>>)

Unbracketed == Selector(FALSE, <<Piece(FALSE, <<"amenity", "pub">>)>>)

TwoEquals == Selector(TRUE, <<Piece(FALSE, <<"a", "b", "c">>)>>)

RowKinds ==
    { Row(0, FALSE, <<>>, "", <<>>),
      Row(1, TRUE, <<"# types">>, "", <<>>),
      Row(3, FALSE, <<>>, "", <<>>),
      Row(3, FALSE, <<"amenity", "cafe">>, "", <<>>),
      Row(3, FALSE, <<"amenity", "kiosk">>, "17", <<>>),
      Row(3, FALSE, <<"building">>, "", <<>>),
      Row(7, FALSE, <<"amenity", "parking", "fee">>, "", <<ParkingFee>>),
      Row(7, FALSE, <<"amenity", "bar">>, "", <<BarInUse, Pub>>),
      Row(4, FALSE, <<"amenity", "cafe">>, "", <<>>),
      Row(7, FALSE, <<"amenity", "pub">>, "", <<Pub, Unbracketed>>),
      Row(7, FALSE, <<"amenity", "pub">>, "", <<TwoEquals>>),
      Row(7, FALSE, <<"amenity", "pub">>, "x", <<Unbracketed>>) }

ParseMapcss(rows) == Call("parse_mapcss", rows, parse_mapcss(rows))

GetPlaceIcon(tags) ==
    Call("get_place_icon", tags, get_place_icon([original_tags |-> tags]))

NameOverlap(name_a, name_b) ==
    Call("name_overlap_score", [a |-> name_a, b |-> name_b],
         name_overlap_score(name_a, name_b))

NextPure ==
    \/ \E matched_types \in MatchedTypes : LeaveLongest(matched_types)
    \/ \E rule \in RuleKinds, tags \in TagDicts : Matches(rule, tags)
    \/ \E places \in PlaceLists, radius \in {10, 30} : Rank(places, radius)
    \/ \E name_a, name_b \in NameKinds : NameOverlap(name_a, name_b)
    \/ \E tags \in IconTagDicts : GetPlaceIcon(tags)
    \/ \E rows \in SeqsUpTo(RowKinds, MaxRows) : ParseMapcss(rows)

SpecPure == InitRequest /\ [][NextPure]_vars


\* ------------------------------------------------------------------------
\* OSMMatcher.__init__ and its two loaders, followed by the session of the
\* matcher it made. A resource file is as the loaders expect it ("ok"),
\* missing, or in one of the forms its parser rejects.
\* ------------------------------------------------------------------------
\* resources/mapcss-mapping.csv: a line whose number of fields is neither 3
\* nor 7, a short line whose type has not two tokens, a full line with an
\* empty type or selector field, a selector not enclosed in brackets, and
\* a tag with more than one "="
RuleFiles ==
    {"ok", "missing", "field_count", "short_type", "empty_field", "selector",
     "tag"}

\* resources/bookmark_icons.yaml: a text that is not YAML
IconFiles == {"ok", "missing", "not_yaml"}

\* Mutant of load_place_matching_data: the lines of the file are not parsed
load_place_matching_data_unparsed(f) ==
    IF f = "missing" THEN "FileNotFoundError" ELSE "None"

\* load_place_matching_data with parse_mapcss: the exception raised, or
\* "None" for a return
load_place_matching_data(f) ==
    CASE f = "missing" -> "FileNotFoundError"
      [] f \in {"field_count", "short_type", "empty_field", "selector", "tag"}
           -> "ValueError"
      [] OTHER -> "None"

\* load_icon_data with yaml.safe_load
load_icon_data(f) ==
    CASE f = "missing" -> "FileNotFoundError"
      [] f = "not_yaml" -> "YAMLError"
      [] OTHER -> "None"

\* OSMMatcher.__init__, lines 111-112: the ruleset is loaded first
Construct(rules, icons) ==
    Call("__init__", [rules |-> rules, icons |-> icons],
         IF load_place_matching_data(rules) # "None"
         THEN load_place_matching_data(rules)
         ELSE load_icon_data(icons))

\* The window makes the matcher in its own constructor; execute runs with
\* the matcher that was made
Constructed == fn = "__init__" /\ ret = "None"

NextLoad ==
    \/ \E rules \in RuleFiles, icons \in IconFiles : Construct(rules, icons)
    \/ Constructed /\ \E p \in GuiParams, ow \in BOOLEAN : Start(p, ow)
    \/ Constructed /\ \E f \in FeatureKinds : NextFeature(f)
    \/ Constructed /\ \E data \in GuiResponses : Search(data)
    \/ Constructed /\ \E selection \in Selections : Select(selection)
    \/ Constructed /\ \E writable \in BOOLEAN : Finalize(writable)
    \/ Constructed /\ RequestStop

SpecLoad == Init /\ [][NextLoad]_vars


\* ------------------------------------------------------------------------
\* Properties
\* ------------------------------------------------------------------------
Doc == Val(kml_obj)
LastPlacemark == Doc[Len(Doc)]
Appended(n) == Len(Doc) = ev.pre.nkml + n
Counted(ds, dk) ==
    /\ successful = ev.pre.successful + ds
    /\ skipped = ev.pre.skipped + dk

\* The last placemark carries the name and the coordinates of candidate c
\* and the description of the current feature
WrittenFrom(c) ==
    /\ LastPlacemark.name = c.name
    /\ LastPlacemark.lat = c.lat
    /\ LastPlacemark.lon = c.lon
    /\ LastPlacemark.description = Val(feature).description

\* The last placemark is the original point of the current feature, with
\* no icon and no feature types
WrittenOriginal ==
    /\ LastPlacemark.name = Some(Val(feature).name)
    /\ LastPlacemark.lat = Some(Val(feature).coordinates[2])
    /\ LastPlacemark.lon = Some(Val(feature).coordinates[1])
    /\ LastPlacemark.description = Val(feature).description
    /\ LastPlacemark.icon = None
    /\ LastPlacemark.feature_types = {}

RangeSet == { RANGES[i] : i \in 1..Len(RANGES) }

\* C1: under policy threshold(v), after a search whose ranked list is not
\* empty: if the top candidate's final score is at least v (equality
\* included) the top candidate is written and user_match_selection is not
\* called; if it is below v, user_match_selection has been called with the
\* ranked list and nothing has been written or counted for the feature.
C1_ThresholdDecides ==
    (ev.op = "Search" /\ match_method = THRESHOLD /\ ~IsNone(threshold)
       /\ ev.nranked > 0)
    => IF Val(ev.top).final_score >= Val(threshold)
       THEN /\ pc = "feature"
            /\ pending = NoPending
            /\ Appended(1)
            /\ WrittenFrom(Val(ev.top))
            /\ Counted(1, 0)
       ELSE /\ pc = "await"
            /\ pending.ctx = "ranked"
            /\ Len(pending.ranked) = ev.nranked
            /\ pending.ranked[1] = Val(ev.top)
            /\ Appended(0)
            /\ Counted(0, 0)
            /\ ev.updates = <<>>

\* C1 witness: a top candidate scoring exactly the threshold was accepted
C1_Witness ==
    /\ ev.op = "Search" /\ match_method = THRESHOLD /\ ~IsNone(threshold)
    /\ ev.nranked > 0
    /\ Val(ev.top).final_score = Val(threshold)
    /\ pc = "feature" /\ Appended(1)

\* C2: under policy best, when ranking returns a non-empty list, exactly
\* one placemark is appended, with the name and coordinates of ranked[0]
\* and the description of the feature; successful grows by one and skipped
\* does not change.
C2_BestTakesTop ==
    (ev.op = "Search" /\ match_method = BEST /\ ev.nranked > 0)
    => /\ Appended(1)
       /\ WrittenFrom(Val(ev.top))
       /\ Counted(1, 0)

\* C2 witness: two candidates were ranked and the top one was written
C2_Witness ==
    /\ ev.op = "Search" /\ match_method = BEST /\ ev.nranked = 2
    /\ Appended(1)
    /\ LastPlacemark.name = Some(LunaCafe)
    /\ successful = 1 /\ skipped = 0

\* C3: under policy best, when the search returns zero candidates, a
\* placemark with the original name and coordinates and without icon or
\* feature types is appended; skipped grows by one and successful does not
\* change.
C3_BestEmptyKeepsOriginal ==
    (ev.op = "Search" /\ match_method = BEST /\ ev.cands = "empty")
    => /\ Appended(1)
       /\ WrittenOriginal
       /\ Counted(0, 1)

\* C3 witness: an empty candidate list under policy best
C3_Witness ==
    /\ ev.op = "Search" /\ match_method = BEST /\ ev.cands = "empty"
    /\ Appended(1) /\ skipped = ev.pre.skipped + 1

\* C4 as stated: under policy best, when the search returns candidates but
\* the ranked list is empty (all too far or without coordinates), the
\* original point is written as it is for zero candidates.
C4_BestNoneQualifies ==
    (ev.op = "Search" /\ match_method = BEST /\ ev.cands = "some"
       /\ ev.nranked = 0 /\ ev.exc # Some("TypeError"))
    => /\ Appended(1)
       /\ WrittenOriginal

\* C5: when user_match_selection returns a non-negative integer i that
\* indexes the ranked list it was given, the placemark appended is built
\* from ranked[i], with its icon and feature types; successful grows by
\* one and skipped does not change.
C5_SelectionWritesIndexed ==
    (ev.op = "Select" /\ ev.sel.t = "int" /\ ev.sel.i >= 0
       /\ ev.sel.i < ev.nranked)
    => /\ ~IsNone(ev.picked)
       /\ Appended(1)
       /\ WrittenFrom(Val(ev.picked))
       /\ LastPlacemark.icon = get_place_icon(Val(ev.picked))
       /\ LastPlacemark.feature_types = get_place_features(Val(ev.picked))
       /\ (Val(ev.picked).id = 1 =>
              /\ LastPlacemark.icon = Some("Cafe")
              /\ LastPlacemark.feature_types
                   = { <<"amenity", "-", "cafe">>, <<"building">> })
       /\ Counted(1, 0)

\* C5 witness: the second of two ranked candidates was selected
C5_Witness ==
    /\ ev.op = "Select" /\ ev.sel = IntSel(1) /\ ev.nranked = 2
    /\ Appended(1)
    /\ Val(ev.picked).id = 1
    /\ LastPlacemark.name = Some(Luna)

\* C6: when user_match_selection returns zoom-in or zoom-out, the next step
\* is a new search for the same feature; successful, skipped and the
\* document are unchanged and update_function is not called. A zoom-out
\* from a radius below 5000 moves to the next larger radius of RANGES.
C6_RadiusChangeSearchesAgain ==
    (ev.op = "Select" /\ ev.sel \in {StrSel(ZOOM_IN), StrSel(ZOOM_OUT)})
    => /\ pc = "search"
       /\ idx = ev.pre.idx
       /\ Appended(0)
       /\ Counted(0, 0)
       /\ ev.updates = <<>>
       /\ (ev.sel = StrSel(ZOOM_OUT) =>
              /\ (ev.pre.range = 10 => range = 30)
              /\ (ev.pre.range = 30 => range = 100)
              /\ (ev.pre.range = 100 => range = 1000)
              /\ (ev.pre.range = 1000 => range = 5000))

\* C6 witness: a zoom-out at 100 m led to a search at 1000 m
C6_Witness ==
    /\ ev.op = "Select" /\ ev.sel = StrSel(ZOOM_OUT)
    /\ ev.pre.range = 100 /\ range = 1000 /\ pc = "search"

C8_RadiusClamped ==
    /\ (ev.op = "Select" /\ ev.sel = StrSel(ZOOM_IN) /\ ev.pre.range = 10)
         => range = 10
    /\ (ev.op = "Select" /\ ev.sel = StrSel(ZOOM_OUT) /\ ev.pre.range = 5000)
         => range = 5000

\* A value that is no index into the list shown, not -1, no radius command
\* and not exit
InvalidSelection(sel, n) ==
    \/ sel.t = "other"
    \/ sel.t = "int" /\ (sel.i < -1 \/ sel.i >= n)
    \/ sel.t = "str" /\ sel.s \notin {ZOOM_IN, ZOOM_OUT, EXIT}

\* C9 as stated: any invalid value returned by user_match_selection makes
\* the feature fall back to the original point: the original placemark is
\* appended, skipped grows by one, no exception is raised and the loop goes
\* to the next feature.
C9_InvalidSelectionKeepsOriginal ==
    (ev.op = "Select" /\ InvalidSelection(ev.sel, ev.nranked))
    => /\ Appended(1)
       /\ WrittenOriginal
       /\ Counted(0, 1)
       /\ ev.exc = None
       /\ pc = "feature"
       /\ idx = ev.pre.idx + 1

\* C10: when user_match_selection returns -1, with candidates shown or
\* with none found, the original placemark without icon or feature types is
\* appended; successful grows by one and skipped does not change.
C10_RejectKeepsOriginal ==
    (ev.op = "Select" /\ ev.sel = IntSel(-1))
    => /\ Appended(1)
       /\ WrittenOriginal
       /\ Counted(1, 0)

\* C10 witness: -1 was returned for a list of ranked candidates
C10_Witness ==
    /\ ev.op = "Select" /\ ev.sel = IntSel(-1)
    /\ ev.ctx = "ranked" /\ ev.nranked > 0
    /\ Appended(1) /\ successful = ev.pre.successful + 1

\* C11 as stated: under policy all, for a feature with valid point geometry,
\* user_match_selection is called before anything is appended or counted for
\* the feature, with candidates or with none: every search ends with the
\* call pending, the document and both counters as they were.
C11_AllAlwaysAsks ==
    (ev.op = "Search" /\ match_method = ALL)
    => /\ pc = "await"
       /\ Appended(0)
       /\ Counted(0, 0)

\* C12: under policy best user_match_selection is never called, whatever
\* the input file holds and whatever the searches return (candidates, an
\* empty list or a failure).
C12_BestNeverAsks ==
    match_method = BEST
    => /\ pc # "await"
       /\ pending = NoPending
       /\ ev.op # "Select"

\* C12 witness: the search of the second feature failed under policy best
\* and the loop went on without a call
C12_Witness ==
    /\ ev.op = "Search" /\ match_method = BEST /\ ev.cands = "none"
    /\ ev.pre.idx = 2 /\ pc = "feature" /\ skipped = ev.pre.skipped + 1

\* C13: an exception raised while a feature is searched, ranked, selected,
\* classified or written is caught: skipped grows by one, the file is not
\* abandoned and the loop stands at the next feature with no call pending;
\* the next feature then starts as every feature does, at the default radius.
C13_ExceptionSkipsFeature ==
    /\ ev.kind = "raised"
         => /\ ~IsNone(ev.exc)
            /\ Counted(0, 1)
            /\ pc = "feature"
            /\ idx = ev.pre.idx + 1
            /\ pending = NoPending
    /\ (ev.op = "NextFeature" /\ ev.kind = "valid")
         => /\ pc = "search"
            /\ range = DEFAULT_RANGE
            /\ pending = NoPending
            /\ Counted(0, 0)

\* C13 witness: the index returned for the first of two features was past
\* the end of the list, and the loop stands at the second feature
C13_Witness ==
    /\ ev.kind = "raised" /\ ev.op = "Select" /\ ev.exc = Some("IndexError")
    /\ ev.pre.idx = 1 /\ nfeat = 2 /\ idx = 2 /\ pc = "feature"
    /\ skipped = 1

\* C14 as stated: update_function is called with the current (successful,
\* skipped) at least once for every feature the loop has handled, also one
\* skipped for its geometry or for an exception, and once more after the
\* output has been finalized.
C14_ProgressEveryFeature ==
    /\ (ev.op \in {"NextFeature", "Search", "Select"} /\ idx = ev.pre.idx + 1)
         => /\ ev.updates # <<>>
            /\ ev.updates[Len(ev.updates)] = <<successful, skipped>>
    /\ ev.op = "Finalize" => ev.updates = << <<successful, skipped>> >>

\* C15 as stated: after a full pass over a file of N features the document
\* holds exactly N placemarks.
C15_OnePlacemarkPerFeature ==
    ev.op = "Finalize" => Len(Doc) = nfeat

\* C16 as stated: when a stop request has ended the wait of a feature with
\* the exit command, also of the last feature, no output file is written
\* for the file.
C16_NoOutputAfterInterrupt ==
    [][(stop_requested /\ ev.op = "Select" /\ ev.sel = StrSel(EXIT))
         => output_file' = output_file]_vars

\* C17: when the stop flag is set as the loop reaches the start of a
\* feature, the function returns: no search, no call of
\* user_match_selection or update_function, no placemark, no change of a
\* counter and no output; and nothing follows the return.
C17_StopAtLoopHead ==
    [][/\ pc # "returned"
       /\ (pc = "feature" /\ idx <= nfeat /\ stop_requested)
            => /\ pc' = "returned"
               /\ ev'.op = "NextFeature"
               /\ ev'.updates = <<>>
               /\ UNCHANGED <<successful, skipped, kml_obj, output_file,
                              idx, range, pending>>]_vars

\* C17 witness: the flag was set while the first of two features was
\* resolved, and the loop returned at the head of the second
C17_Witness ==
    /\ ev.op = "NextFeature" /\ ev.kind = "return" /\ pc = "returned"
    /\ stop_requested /\ nfeat = 2 /\ idx = 2 /\ Len(Doc) = 1

\* C18 as stated: when user_match_selection returns the exit command, with
\* ranked candidates shown or with none found, the function returns at
\* once: nothing is appended or counted and update_function is not called.
C18_ExitAbandons ==
    (ev.op = "Select" /\ ev.sel = StrSel(EXIT))
    => /\ pc = "returned"
       /\ Appended(0)
       /\ Counted(0, 0)
       /\ ev.updates = <<>>

\* C19 as stated: however closeEvent (stop flag set, a registered wait
\* ended with exit, then the join) interleaves with
\* trigger_user_match_selection, the worker is never left in the wait of
\* exec_() while closeEvent stands in the join.
C19_CloseNeverStrandsWorker ==
    ~(close_pc = "join" /\ pc = "await" /\ cb_pc = "wait"
        /\ loop_state = "running")

\* The kinds of failed attempt that are retried
Retried == AttemptKinds \ {"json", "duplicate"}

\* C20: one call of overpass_request makes at most 5 attempts and ends: it
\* returns the parsed response of the first attempt that meets a JSON
\* response, and when every attempt fails with status 429 or 504, another
\* error status, a non-JSON response or a transport error, it returns None
\* after the 5th; it never raises.
C20_RequestBounded ==
    /\ attempt <= max_retries
    /\ Len(outcomes) <= max_retries
    /\ req_pc # "raised"
    /\ req_pc = "try" => Len(outcomes) = attempt - 1
    /\ req_pc = "sleep" => Len(outcomes) = attempt
    /\ req_pc \in {"idle", "try", "sleep"} => ENABLED NextRequest
    /\ req_pc \in {"try", "sleep"}
         => \A i \in 1..Len(outcomes) : outcomes[i].kind \in Retried
    /\ req_pc = "returned"
         => LET n == Len(outcomes)
            IN  /\ n >= 1
                /\ \A i \in 1..(n - 1) : outcomes[i].kind \in Retried
                /\ outcomes[n].kind = "json" => result = Some(outcomes[n].body)
                /\ outcomes[n].kind # "json" => result = None
                /\ outcomes[n].kind \in Retried => n = max_retries

\* C20 witness: five attempts failed in five different ways and None was
\* returned
C20_Witness ==
    /\ req_pc = "returned" /\ result = None /\ Len(outcomes) = 5
    /\ outcomes[1].kind = "429" /\ outcomes[2].kind = "transport"
    /\ outcomes[3].kind = "non_json" /\ outcomes[4].kind = "http_error"
    /\ outcomes[5].kind = "504"

\* C21: an attempt that meets the duplicate-query response ends the call at
\* once, whatever the number of attempts left: it is the last attempt, no
\* wait follows it (only the failed attempts before it were followed by
\* one), and the call returns None.
C21_DuplicateAborts ==
    \A i \in 1..Len(outcomes) :
        outcomes[i].kind = "duplicate"
            => /\ i = Len(outcomes)
               /\ req_pc = "returned"
               /\ result = None
               /\ Len(waits) = i - 1
               /\ attempt = i

\* C21 witness: the second of five attempts met the duplicate-query
\* response, after one wait
C21_Witness ==
    /\ Len(outcomes) = 2
    /\ outcomes[1].kind = "429"
    /\ outcomes[2].kind = "duplicate"
    /\ attempt < max_retries
    /\ req_pc = "returned"

\* The waits the documentation gives for the failed attempts 1 to 5
DocumentedWaits == <<2, 4, 8, 16, 30>>

\* C22: the wait after the k-th failed attempt that is retried is
\* min(2^k, 30) seconds, that is 2, 4, 8, 16 and 30 for k = 1..5; the waits
\* of one call never decrease and never exceed 30.
C22_BackoffWaits ==
    /\ Len(waits) <= max_retries
    /\ \A k \in 1..Len(waits) :
          /\ waits[k] = DocumentedWaits[k]
          /\ outcomes[k].kind \in Retried
          /\ waits[k] <= 30
          /\ k > 1 => waits[k - 1] <= waits[k]

\* C22 witness: the fifth failed attempt was followed by the capped wait
C22_Witness ==
    /\ Len(waits) = max_retries
    /\ waits[max_retries] = 30
    /\ req_pc = "sleep"

\* C24: a call whose output file exists and whose overwrite flag is false
\* returns at once: the output file keeps its content, no document is
\* made, nothing is searched or asked and update_function is not called.
\* The state it leaves is the one it found, output file included, so the
\* same call made again is blocked again and gives the same result.
C24_ExistingOutputKept ==
    (ev.op = "Start" /\ ev.ctx = "keep" /\ ~IsNone(output_file))
    => /\ pc = "returned"
       /\ output_file = Some(OldDocument)
       /\ kml_obj = None
       /\ pending = NoPending
       /\ ev.updates = <<>>
       /\ Counted(0, 0)
       /\ start_outcome(input_file, ~IsNone(output_file), FALSE) = "return"

\* C24 witness: a readable collection of two features, an output file that
\* exists, and overwrite disabled
C24_Witness ==
    /\ ev.op = "Start" /\ ev.ctx = "keep"
    /\ input_file = [state |-> "ok", n |-> 2]
    /\ output_file = Some(OldDocument)
    /\ pc = "returned"

\* C25: a call whose input file is missing, does not parse as JSON or does
\* not hold a feature collection ends before any feature is taken: no
\* document is made, nothing is searched or asked, update_function is not
\* called, and the output file is neither written nor touched.
C25_BadInputRejected ==
    (ev.op = "Start" /\ input_file.state # "ok")
    => /\ pc \in {"returned", "raised"}
       /\ ev.kind \in {"return", "propagated"}
       /\ kml_obj = None
       /\ pending = NoPending
       /\ ev.updates = <<>>
       /\ Counted(0, 0)
       /\ output_file \in {None, Some(OldDocument)}
       /\ ~ENABLED Next

\* C25 witness: a JSON object that is not a feature collection, with no
\* output file in the way, was turned down
C25_Witness ==
    /\ ev.op = "Start" /\ ev.kind = "return"
    /\ input_file.state = "not_collection"
    /\ output_file = None
    /\ pc = "returned"

\* What a loop body that starts with the response data comes to, apart from
\* the note of what the search returned
BodyFrom(data) ==
    LET o == after_search(CurSess, Val(feature), match_method, threshold, data)
    IN  [kind |-> o.kind, exc |-> o.exc, ranked |-> o.ranked, ctx |-> o.ctx,
         after |-> end_of_body(o)]

\* C23: for every policy and every feature, a search that fails (None) and
\* a search that finds nothing (the empty list) are answered alike. Before
\* a search, both results lead to the same outcome: the same call of
\* user_match_selection or none, the same counters, the same document and
\* the same calls of update_function. After a search that returned either,
\* nothing was ranked or raised; policy best has written the original
\* point, and every other policy waits for user_match_selection with no
\* candidates, with nothing written or counted.
C23_FailureLikeEmpty ==
    /\ pc = "search" => BodyFrom(None) = BodyFrom(Some(<<>>))
    /\ (ev.op = "Search" /\ ev.cands \in {"none", "empty"})
       => /\ ev.nranked = 0
          /\ ev.exc = None
          /\ IF match_method = BEST
             THEN /\ ev.kind = "done"
                  /\ pc = "feature"
                  /\ Appended(1)
                  /\ WrittenOriginal
                  /\ Counted(0, 1)
                  /\ pending = NoPending
             ELSE /\ ev.kind = "await"
                  /\ pc = "await"
                  /\ pending = [ctx |-> "empty", ranked |-> <<>>]
                  /\ Appended(0)
                  /\ Counted(0, 0)
                  /\ ev.updates = <<>>

\* C23 witness: under policy all, a search for a named feature came back
\* with an empty list of elements and the user is asked
C23_Witness ==
    /\ ev.op = "Search" /\ ev.cands = "empty"
    /\ extract_words(Val(feature).name) # <<>>
    /\ match_method = ALL
    /\ pc = "await"

\* C26: whatever list of matched type paths leave_longest_types is given,
\* in whatever order, its result holds no two paths that have the same
\* first two tokens and different lengths; every path it returns was
\* matched.
C26_LongestWins ==
    fn = "leave_longest_types"
    => /\ \A i, j \in 1..Len(ret) :
             (/\ Len(ret[i]) >= 2
              /\ Len(ret[j]) >= 2
              /\ SubSeq(ret[i], 1, 2) = SubSeq(ret[j], 1, 2))
             => Len(ret[i]) = Len(ret[j])
       /\ \A i \in 1..Len(ret) : \E k \in 1..Len(arg) : arg[k] = ret[i]

\* C26 witness: the longest path was matched between two shorter ones of
\* the same first two tokens, and alone was kept
C26_Witness ==
    /\ fn = "leave_longest_types"
    /\ arg = << <<"amenity", "parking">>,
                <<"amenity", "parking", "fee", "card">>,
                <<"amenity", "parking", "fee">> >>
    /\ ret = << <<"amenity", "parking", "fee", "card">> >>

\* C27: matches(tags) is true exactly when every required tag of the rule
\* is among the tags, every mandatory key has a tag whose value is not
\* "no", and every forbidden key has no tag or only the tag with value
\* "no".
C27_MatchesIff ==
    fn = "matches"
    => LET required == arg.rule.m_tags \subseteq arg.tags
           mandatory ==
               \A key \in arg.rule.m_mandatoryKeys :
                   { t \in arg.tags : t.key = key /\ t.value # "no" } # {}
           forbidden ==
               \A key \in arg.rule.m_forbiddenKeys :
                   { t \in arg.tags : t.key = key } \subseteq {OsmTag(key, "no")}
       IN  ret = (required /\ mandatory /\ forbidden)

\* C27 witness: a rule with a required tag, a mandatory key and a forbidden
\* key matched tags that hold the forbidden key with value "no"
C27_Witness ==
    /\ fn = "matches"
    /\ ret = TRUE
    /\ arg.rule = Rule({OsmTag("amenity", "cafe")}, {"fee"}, {"disused"})
    /\ OsmTag("disused", "no") \in arg.tags

\* The place of the candidate with this id in a list
PositionOf(list, id) == CHOOSE k \in 1..Len(list) : list[k].id = id

\* C28: the list rank_matched_places returns holds the candidates within
\* reach by non-increasing final score; candidates of equal final score
\* stand in the order of the input; and ranking the returned list again
\* returns it unchanged.
C28_RankOrder ==
    (fn = "rank_matched_places" /\ IsNone(ret.exc))
    => LET ranked == ret.ranked
       IN
       /\ \A i \in 1..(Len(ranked) - 1) :
             ranked[i].final_score >= ranked[i + 1].final_score
       /\ \A i, j \in 1..Len(ranked) :
             (i < j /\ ranked[i].final_score = ranked[j].final_score)
             => PositionOf(arg.places, ranked[i].id)
                  < PositionOf(arg.places, ranked[j].id)
       /\ { ranked[i].id : i \in 1..Len(ranked) }
            = { arg.places[k].id : k \in { n \in 1..Len(arg.places) :
                  haversine_distance(0, Val(arg.places[n].lat)) <= 2 * arg.radius } }
       /\ rank_matched_places(ranked, arg.target_lat, arg.target_name,
                              arg.radius).ranked = ranked

\* C28 witness: two candidates of equal score came before a better one in
\* the input, and the better one was returned first
C28_Witness ==
    /\ fn = "rank_matched_places"
    /\ Len(ret.ranked) = 3
    /\ ret.ranked[1].id = arg.places[3].id
    /\ ret.ranked[1].final_score > ret.ranked[2].final_score
    /\ ret.ranked[2].final_score = ret.ranked[3].final_score
    /\ ret.ranked[2].id = arg.places[1].id

\* The tokens of a name: its maximal runs of word characters that are at
\* least 3 long, in lower case
TokensOf(name) ==
    { LowerWord(SubSeq(name, i, j)) :
        <<i, j>> \in { p \in (1..Len(name)) \X (1..Len(name)) :
            /\ p[2] - p[1] >= 2
            /\ \A k \in p[1]..p[2] : IsWordChar(name[k])
            /\ p[1] = 1 \/ ~IsWordChar(name[p[1] - 1])
            /\ p[2] = Len(name) \/ ~IsWordChar(name[p[2] + 1]) } }

Alphabetic(name) == name # <<>> /\ \A k \in 1..Len(name) : IsLetter(name[k])

\* C29 as stated: the overlap of a non-empty alphabetic name with itself is
\* 1.0, and the overlap of two names that share no token of at least 3
\* characters is 0.0.
C29_AsStated ==
    fn = "name_overlap_score"
    => /\ (arg.a = arg.b /\ Alphabetic(arg.a)) => (ret[1] = ret[2] /\ ret[2] > 0)
       /\ TokensOf(arg.a) \cap TokensOf(arg.b) = {} => ret[1] = 0

\* C29: the overlap of a name with itself is 1.0 when the name has a token
\* of at least 3 word characters and 0.0 when it has none; the overlap of
\* two names that share no such token, compared without regard to case,
\* is 0.0; the overlap is never above 1.0.
C29_NameOverlap ==
    fn = "name_overlap_score"
    => /\ arg.a = arg.b
            => IF TokensOf(arg.a) # {}
               THEN ret[1] = ret[2] /\ ret[2] > 0
               ELSE ret[1] = 0
       /\ TokensOf(arg.a) \cap TokensOf(arg.b) = {} => ret[1] = 0
       /\ 0 <= ret[1] /\ ret[1] <= ret[2] /\ ret[2] > 0

\* C29 witness: a name of two letters compared with itself scores 0.0
C29_Witness ==
    /\ fn = "name_overlap_score"
    /\ arg.a = <<"L", "a">>
    /\ arg.b = arg.a
    /\ ret[1] = 0

DistanceOf(place) == haversine_distance(arg.target_lat, Val(place.lat))

\* C31: ranking without a max_distance uses twice the search radius: when
\* it returns, a candidate with known coordinates is in the result exactly
\* when its distance is at most twice the radius; a candidate at exactly
\* that distance is kept with distance score 0; and every returned
\* candidate has a distance score within [0, 1] that is
\* 1 - distance / max_distance, rounded to thousandths.
C31_MaxDistance ==
    (fn = "rank_matched_places" /\ IsNone(ret.exc))
    => LET ranked == ret.ranked
           max_distance == 2 * arg.radius
       IN
       /\ \A k \in 1..Len(arg.places) :
             (\E i \in 1..Len(ranked) : ranked[i].id = arg.places[k].id)
               <=> DistanceOf(arg.places[k]) <= max_distance
       /\ \A i \in 1..Len(ranked) :
             /\ ranked[i].distance_m = DistanceOf(ranked[i])
             /\ ranked[i].distance_m <= max_distance
             /\ ranked[i].distance_score >= 0
             /\ ranked[i].distance_score <= 1000
             /\ ranked[i].distance_m = max_distance => ranked[i].distance_score = 0
             /\ LET exact == 1000 * (max_distance - ranked[i].distance_m)
                    got == ranked[i].distance_score * max_distance
                IN  2 * (got - exact) <= max_distance
                      /\ 2 * (exact - got) <= max_distance

\* C31 witness: at radius 10, of a candidate at 30, one at 20 and one at 5,
\* the first was dropped and the second was kept with distance score 0
C31_Witness ==
    /\ fn = "rank_matched_places"
    /\ arg.radius = 10
    /\ { arg.places[k].id : k \in 1..Len(arg.places) } = {1, 6, 7}
    /\ Len(ret.ranked) = 2
    /\ ret.ranked[2].id = 7
    /\ ret.ranked[2].distance_score = 0

\* C40 as stated: ranking never fails on a candidate that has coordinates
\* and no name: the call returns, every such candidate within reach is in
\* the result with name score 0 and a final score that comes from the
\* distance alone, and the result holds the other candidates within reach
\* as well.
C40_NamelessRanked ==
    fn = "rank_matched_places"
    => /\ IsNone(ret.exc)
       /\ \A k \in 1..Len(arg.places) :
             DistanceOf(arg.places[k]) <= 2 * arg.radius
             => \E i \in 1..Len(ret.ranked) :
                   /\ ret.ranked[i].id = arg.places[k].id
                   /\ IsNone(arg.places[k].name)
                        => /\ ret.ranked[i].name_score = 0
                           /\ ret.ranked[i].final_score * 1000
                                = dist_weight * ret.ranked[i].distance_score

\* How often a path occurs in a list
CountOf(list, path) == Cardinality({ i \in 1..Len(list) : list[i] = path })

\* The list holds a strictly longer path that agrees with this one on the
\* first min(2, length of this one) tokens
Dominated(path, list) ==
    \E k \in 1..Len(list) :
        /\ Len(list[k]) > Len(path)
        /\ \A n \in 1..Len(path) : n <= 2 => list[k][n] = path[n]

\* C32: leave_longest_types(M) holds every path of M that no strictly
\* longer path of M dominates, as often as M holds it, and no other path;
\* so paths of the same length are all kept, and the result as a multiset
\* is the same for every order of M.
C32_ExactlyNonDominated ==
    fn = "leave_longest_types"
    => \A path \in TypePaths :
          CountOf(ret, path) =
              IF Dominated(path, arg) THEN 0 ELSE CountOf(arg, path)

\* C32 witness: a path matched twice and a path of one token that it
\* dominates: both copies were kept and the short path was dropped
C32_Witness ==
    /\ fn = "leave_longest_types"
    /\ arg = << <<"amenity", "cafe">>, <<"amenity">>, <<"amenity", "cafe">> >>
    /\ ret = << <<"amenity", "cafe">>, <<"amenity", "cafe">> >>

IconOfCategory(i, tags) ==
    LET e == data_place_icons[i]
        values == { t.value : t \in { u \in tags : u.key = e.category } } \ {""}
        listed == { p \in e.submap : p[1] \in values }
    IN  IF values = {} THEN None
        ELSE IF listed # {} THEN Some((CHOOSE p \in listed : TRUE)[2])
        ELSE e.default

\* C34: get_place_icon returns the icon of the first category, in the order
\* of the mapping, that is among the tags with a non-empty value and lists
\* the value or has a default entry, the listed value before the default;
\* categories that give nothing are passed over, and the result is None
\* when no category gives an icon.
C34_FirstCategoryWins ==
    fn = "get_place_icon"
    => LET giving == { i \in 1..Len(data_place_icons) :
                         ~IsNone(IconOfCategory(i, arg)) }
       IN  IF giving = {} THEN ret = None
           ELSE ret = IconOfCategory(
                          CHOOSE i \in giving : \A j \in giving : i <= j, arg)

\* C34 witness: the first category is among the tags with a value it does
\* not list and has no default; the second is not among the tags; the
\* third lists the value and has a default, and gave the listed icon
C34_Witness ==
    /\ fn = "get_place_icon"
    /\ arg = {OsmTag("amenity", "parking"), OsmTag("shop", "bakery")}
    /\ ret = Some("Bakery")

\* A row that is neither blank nor a comment
Remaining(row) == row.nfields > 0 /\ row.type_tokens # <<>> /\ ~row.comment

WrongCount(row) == row.nfields \notin {3, 7}

\* A full row with a selector that is not enclosed in brackets, or with a
\* piece that holds more than one "="
BadSelector(row) ==
    /\ row.nfields = 7
    /\ \E k \in 1..Len(row.selectors) :
          \/ (row.selectors[k].pieces # <<>> /\ ~row.selectors[k].bracketed)
          \/ \E n \in 1..Len(row.selectors[k].pieces) :
                Len(row.selectors[k].pieces[n].tokens) > 2

\* The type tokens of the rules a row gives: one rule for a short row, one
\* for each selector of a full row, none for a row that is passed over
RECURSIVE TypesOfRows(_)
TypesOfRows(rows) ==
    IF rows = <<>> THEN <<>>
    ELSE LET row == Head(rows)
             n == IF ~Remaining(row) THEN 0
                  ELSE IF row.nfields = 3 /\ row.third = "" THEN 1
                  ELSE IF row.nfields = 7 /\ row.third # "x"
                       THEN Len(row.selectors)
                  ELSE 0
         IN  [k \in 1..n |-> row.type_tokens] \o TypesOfRows(Tail(rows))

RulesInFileOrder ==
    IsNone(ret.exc)
    => [k \in 1..Len(ret.rules) |-> ret.rules[k][1]] = TypesOfRows(arg)

\* C35 as stated: blank rows and comment rows are skipped; any other row
\* with a field count other than 3 or 7, a selector without brackets or a
\* piece with more than one "=" makes the load fail with no rules
\* returned; the rules of a load that succeeds are in file order.
C35_AsStated ==
    fn = "parse_mapcss"
    => /\ (\E k \in 1..Len(arg) :
              Remaining(arg[k]) /\ (WrongCount(arg[k]) \/ BadSelector(arg[k])))
            => (ret.exc = Some("ValueError") /\ ret.rules = <<>>)
       /\ RulesInFileOrder

\* C35: blank rows and comment rows are skipped, and so are, unexamined,
\* the rows of 3 fields with a third field and the rows of 7 fields marked
\* "x". Any other row with a field count other than 3 or 7, and any full
\* row not marked "x" with a selector without brackets or a piece with
\* more than one "=", makes the load fail with no rules returned. The
\* rules of a load that succeeds are in file order, and a file of skipped
\* rows only gives no rules.
C35_ParseFailures ==
    fn = "parse_mapcss"
    => /\ (\E k \in 1..Len(arg) :
              /\ Remaining(arg[k])
              /\ \/ WrongCount(arg[k])
                 \/ (BadSelector(arg[k]) /\ arg[k].third # "x"))
            => (ret.exc = Some("ValueError") /\ ret.rules = <<>>)
       /\ RulesInFileOrder
       /\ (\A k \in 1..Len(arg) :
              \/ ~Remaining(arg[k])
              \/ (arg[k].nfields = 3 /\ arg[k].third # "")
              \/ (arg[k].nfields = 7 /\ arg[k].third = "x"))
            => ret = [exc |-> None, rules |-> <<>>]

\* C35 witness: a comment, a full row with two selectors and a row marked
\* "x" whose selector has no brackets: the load gave the two rules
C35_Witness ==
    /\ fn = "parse_mapcss"
    /\ Len(arg) = 3
    /\ arg[1].comment
    /\ arg[2].selectors = <<BarInUse, Pub>>
    /\ arg[3].third = "x" /\ BadSelector(arg[3])
    /\ IsNone(ret.exc)
    /\ Len(ret.rules) = 2
    /\ ret.rules[1][2] = Rule({OsmTag("amenity", "bar")}, {}, {"disused"})

\* C36 as stated: every feature changes the counters by exactly one in
\* total: whenever the loop stands between two features, successful +
\* skipped is the number of features handled, and after a full pass over
\* N features it is N.
C36_CountedOnce ==
    /\ pc = "feature" => successful + skipped = idx - 1
    /\ ev.op = "Finalize" => successful + skipped = nfeat

\* C37: when the first search of a feature is about to be made, the radius
\* is the default one (10), whatever radius the constructor was given and
\* whatever radius the feature before was left with.
C37_FirstSearchAtDefault ==
    (ev.op = "NextFeature" /\ pc = "search")
    => /\ range = DEFAULT_RANGE
       /\ range = 10

\* C37 witness: the first feature was resolved at another radius, and the
\* second is about to be searched at the default one
C37_Witness ==
    /\ ev.op = "NextFeature" /\ pc = "search"
    /\ idx = 2
    /\ ev.pre.range \notin {DEFAULT_RANGE, 50}
    /\ range = DEFAULT_RANGE

\* The candidate was ranked at this radius: its distance is within twice
\* the radius and its distance score is the one of that limit
RankedAt(c, radius) ==
    /\ c.distance_m <= 2 * radius
    /\ c.distance_score = RoundDiv(1000 * (2 * radius - c.distance_m), 2 * radius)

\* C38: when an index returned by user_match_selection makes the placemark
\* of a match,
\* the step before was the search of the same feature at the radius that
\* is current, the list the index is applied to is the list that search
\* ranked, and the placemark is made from the element of that list at the
\* index; this also after any number of radius changes.
C38_IndexIntoLatestList ==
    [][(/\ pc = "await"
        /\ ev'.op = "Select" /\ ev'.sel.t = "int" /\ ev'.sel.i >= 0
        /\ Len(Val(kml_obj')) > Len(Val(kml_obj))
        /\ successful' > successful)
       => /\ ev.op = "Search"
          /\ ev.pre.idx = idx
          /\ ev.pre.range = range
          /\ ev'.sel.i < Len(pending.ranked)
          /\ ev.nranked = Len(pending.ranked)
          /\ ev.top = Some(pending.ranked[1])
          /\ \A k \in 1..Len(pending.ranked) : RankedAt(pending.ranked[k], range)
          /\ LET c == pending.ranked[ev'.sel.i + 1]
                 made == Val(kml_obj')[Len(Val(kml_obj'))]
             IN  /\ made.name = c.name
                 /\ made.lat = c.lat
                 /\ made.lon = c.lon]_vars

\* C38 witness: after a change of radius to 30, the index 0 has made a
\* placemark from a candidate ranked at that radius
C38_Witness ==
    /\ ev.op = "Select" /\ ev.sel = IntSel(0)
    /\ ev.pre.range = 30 /\ range = 30
    /\ Appended(1)
    /\ ~IsNone(ev.picked)
    /\ RankedAt(Val(ev.picked), 30)
    /\ ~RankedAt(Val(ev.picked), 10)

\* The work left to a run that has started: three units for every feature not
\* yet finished, two at the head of the loop and one with a search pending,
\* and one more while the stop flag can still be set
WorkLeft ==
    IF pc \in {"returned", "raised"}
    THEN 0
    ELSE 3 * (nfeat + 1 - idx)
         + (IF pc = "feature" THEN 2 ELSE 1)
         + (IF stop_requested THEN 0 ELSE 1)

RadiusCommand(sel) == sel \in {StrSel(ZOOM_IN), StrSel(ZOOM_OUT)}

\* C39: under the policy best every step of a started run lowers the work
\* left, which is never negative, so a file of N features is processed in a
\* bounded number of steps; the callback is never waited for and a search is
\* pending only directly after the head of the loop, hence at most one
\* search per feature. Under every policy a search of the same feature is
\* pending again only after a radius command that changed the radius, and
\* any other value returned by the callback ends the loop of the feature.
C39_TerminationAndSearches ==
    [][/\ (pc # "idle" /\ match_method = BEST)
           => /\ WorkLeft' < WorkLeft
              /\ WorkLeft' >= 0
              /\ pc' # "await"
              /\ pc' = "search" => ev'.op = "NextFeature"
              /\ (pc = "search" /\ pc' # "search")
                    => (pc' = "raised" \/ idx' = idx + 1)
       /\ (pc # "search" /\ pc' = "search" /\ ev'.op # "NextFeature")
           => /\ pc = "await"
              /\ ev'.op = "Select"
              /\ RadiusCommand(ev'.sel)
              /\ range' # range
              /\ idx' = idx
       /\ (pc = "await" /\ ev'.op = "Select" /\ ~RadiusCommand(ev'.sel))
           => /\ pc' \in {"feature", "returned"}
              /\ pc' = "feature" => idx' = idx + 1]_vars

====
